---- MODULE Spec2Model ----
(***************************************************************************)
(* Source terms of the CDO schemes of code_saturne (cs_source_term.c):    *)
(* the registry of source-term descriptors, the per-cell mask and the     *)
(* dispatch table built by cs_source_term_init, the per-cell driver       *)
(* cs_source_term_compute_cellwise and the cellwise evaluators.           *)
(*                                                                         *)
(* Real numbers (double) are modelled by exact rationals <<n, d>> in      *)
(* lowest terms with d > 0; <<0, 0>> stands for every non-finite double   *)
(* (inf, NaN), which is what a division by zero produces.  C arrays are   *)
(* functions over 0..n-1.                                                  *)
(***************************************************************************)
EXTENDS Integers, Sequences, FiniteSets, TLC

VARIABLES
  NDEBUG,       \* the build: TRUE when assert() is compiled out
  eq_terms,     \* the registry of an equation: its cs_source_term_t, by id
  eq_status,    \* "setup", then how cs_source_term_init and the assembly ended
  eq_scheme,    \* space scheme given to cs_source_term_init
  eq_compute,   \* the dispatch table compute_source[]
  eq_sys_flag,  \* metadata of the algebraic system
  eq_mask,      \* the mask of the cells: NoArray or one cs_mask_t per cell
  eq_csys,      \* the cellwise system: n_dofs and source
  eq_c_id,      \* the cell assembled last, -1 before the first one
  eq_calls,     \* the calls of the last assembly: <<term id, function>>
  eval_call,    \* a direct call of one evaluator: its arguments and result
  def_call,     \* the last call of a cs_source_term_def_by_* function
  heap,         \* the blocks released and the words written outside their block
  par           \* the workers of a parallel assembly and their buffers

vars == <<NDEBUG, eq_terms, eq_status, eq_scheme, eq_compute, eq_sys_flag, eq_mask,
          eq_csys, eq_c_id, eq_calls, eval_call, def_call, heap, par>>


(***************************************************************************)
(* Exact arithmetic standing for double arithmetic                         *)
(***************************************************************************)
Abs(i) == IF i < 0 THEN -i ELSE i

RECURSIVE GCD(_, _)
GCD(a, b) == IF b = 0 THEN a ELSE GCD(b, a % b)

NonFinite == <<0, 0>>

\* n/d in lowest terms with a positive denominator, g being gcd(|n|, |d|)
Reduced(n, d, g) == <<(IF d < 0 THEN -n ELSE n) \div g, Abs(d) \div g>>

Q(n, d) == IF d = 0 THEN NonFinite ELSE Reduced(n, d, GCD(Abs(n), Abs(d)))

R(n) == <<n, 1>>

Zero == R(0)

RAdd(x, y) ==
  IF x[2] = 0 \/ y[2] = 0 THEN NonFinite
  ELSE Q(x[1] * y[2] + y[1] * x[2], x[2] * y[2])

RSub(x, y) ==
  IF x[2] = 0 \/ y[2] = 0 THEN NonFinite
  ELSE Q(x[1] * y[2] - y[1] * x[2], x[2] * y[2])

RMul(x, y) ==
  IF x[2] = 0 \/ y[2] = 0 THEN NonFinite
  ELSE Q(x[1] * y[1], x[2] * y[2])

\* x / y in double arithmetic: a zero divisor gives inf or NaN, never a trap
RDiv(x, y) ==
  IF x[2] = 0 \/ y[2] = 0 \/ y[1] = 0 THEN NonFinite
  ELSE Q(x[1] * y[2], x[2] * y[1])

RAbs(x) == <<Abs(x[1]), x[2]>>

RPos(x) == x[2] # 0 /\ x[1] > 0

\* sum of f[i] for i = lo..hi-1, accumulated in index order as a C loop does
RECURSIVE RSum(_, _, _)
RSum(f, lo, hi) == IF lo >= hi THEN Zero ELSE RAdd(RSum(f, lo, hi - 1), f[hi - 1])

(***************************************************************************)
(* Points (cs_real_3_t): <<x, y, z>> of reals                              *)
(***************************************************************************)
P3(x, y, z) == <<R(x), R(y), R(z)>>

VAdd(a, b) == <<RAdd(a[1], b[1]), RAdd(a[2], b[2]), RAdd(a[3], b[3])>>

VSub(a, b) == <<RSub(a[1], b[1]), RSub(a[2], b[2]), RSub(a[3], b[3])>>

VScale(s, a) == <<RMul(s, a[1]), RMul(s, a[2]), RMul(s, a[3])>>

\* cross product a x b
CrossProduct(a, b) ==
  <<RSub(RMul(a[2], b[3]), RMul(a[3], b[2])),
    RSub(RMul(a[3], b[1]), RMul(a[1], b[3])),
    RSub(RMul(a[1], b[2]), RMul(a[2], b[1]))>>

\* dot product a . b
DotProduct(a, b) == RAdd(RAdd(RMul(a[1], b[1]), RMul(a[2], b[2])), RMul(a[3], b[3]))

\* volume of the tetrahedron (xv, xe, xf, xc): |(xe-xv) x (xf-xe) . (xc-xf)| / 6
cs_math_voltet(xv, xe, xf, xc) ==
  RMul(Q(1, 6), RAbs(DotProduct(CrossProduct(VSub(xe, xv), VSub(xf, xe)), VSub(xc, xf))))

(***************************************************************************)
(* Cell geometry (cs_cell_mesh_t), given by the mesh collaborator          *)
(***************************************************************************)
\* the array a, with every entry evaluated once (TLC would otherwise evaluate
\* an entry again at each read)
Stored(a) == a @@ <<>>

\* a C array holding the entries of a sequence, indexed from 0
Arr(s) == Stored([i \in 0..(Len(s) - 1) |-> s[i + 1]])

\* local connectivity of a tetrahedral cell: 4 vertices, 6 edges, 4 faces
TetE2V == Arr(<<0, 1, 0, 2, 0, 3, 1, 2, 1, 3, 2, 3>>)

TetF2V == Arr(<<<<0, 1, 2>>, <<0, 1, 3>>, <<0, 2, 3>>, <<1, 2, 3>>>>)

\* the cs_cell_mesh_t of the tetrahedron of vertices xv[0..3]: centers, volume
\* and dual-volume weights (a quarter of the cell for each vertex)
TetraMesh(id, xv) ==
  [c_id |-> id, n_vc |-> 4, n_ec |-> 6, n_fc |-> 4,
   xv |-> xv,
   xc |-> VScale(Q(1, 4), VAdd(VAdd(xv[0], xv[1]), VAdd(xv[2], xv[3]))),
   vol_c |-> cs_math_voltet(xv[0], xv[1], xv[2], xv[3]),
   wvc |-> Stored([v \in 0..3 |-> Q(1, 4)]),
   edge |-> Stored([e \in 0..5 |->
              [center |-> VScale(Q(1, 2), VAdd(xv[TetE2V[2 * e]], xv[TetE2V[2 * e + 1]]))]]),
   face |-> Stored([f \in 0..3 |->
              [center |-> VScale(Q(1, 3), VAdd(VAdd(xv[TetF2V[f][1]], xv[TetF2V[f][2]]),
                                               xv[TetF2V[f][3]]))]]),
   e2v_ids |-> TetE2V,
   f2e_idx |-> Arr(<<0, 3, 6, 9, 12>>),
   f2e_ids |-> Arr(<<0, 1, 3, 0, 2, 4, 1, 2, 5, 3, 4, 5>>)]

\* cs_cdo_quant->n_cells
n_cells == 2

\* the cells of the mesh, by cell id
MeshCells ==
  Arr(<<TetraMesh(0, Arr(<<P3(0, 0, 0), P3(4, 0, 0), P3(0, 4, 0), P3(0, 0, 4)>>)),
        TetraMesh(1, Arr(<<P3(4, 0, 0), P3(0, 4, 0), P3(0, 0, 4), P3(4, 4, 4)>>))>>)

CellIds == 0..(n_cells - 1)

\* the cells that an evaluator may be given: the cells of the mesh, and a
\* degenerate cell whose four vertices lie in one plane (vol_c = 0, and the
\* dual-cell volume vol_c * wvc[v] of each vertex is 0)
GeomCells ==
  MeshCells @@
  (n_cells :> TetraMesh(n_cells, Arr(<<P3(0, 0, 0), P3(4, 0, 0), P3(0, 4, 0), P3(4, 4, 0)>>)))

(***************************************************************************)
(* Analytic functions (cs_analytic_func_t) and the local Hodge operator    *)
(***************************************************************************)
cs_time_step == [t_cur |-> Zero]

AnalyticFuncs == {"f_const", "f_x", "f_affine"}

\* the value of the analytic function at one point
AnaPoint(func, tcur, x) ==
  CASE func = "f_const" -> R(2)
    [] func = "f_x" -> x[1]
    [] func = "f_affine" -> RAdd(RAdd(x[1], RMul(R(2), x[2])), R(3))

\* func(tcur, n_pts, xyz, retval): one value per point, in the order of xyz
Ana(func, tcur, n_pts, xyz) ==
  Stored([i \in 0..(n_pts - 1) |-> AnaPoint(func, tcur, xyz[i])])

\* the local Hodge operator of a cell for n_ent degrees of freedom: the dense
\* matrix vol_c/(n_ent (n_ent + 1)) (1 + delta_ij), whose entries sum to vol_c
HodgeOf(cm, n) ==
  [n_ent |-> n,
   val |-> [k \in 0..(n * n - 1) |->
             RMul(cm.vol_c, Q(IF k \div n = k % n THEN 2 ELSE 1, n * (n + 1)))]]

\* matvec[i] = sum_j loc->val[i*n_ent + j] * vec[j]
cs_locmat_matvec(loc, vec) ==
  [i \in 0..(loc.n_ent - 1) |->
     RSum([j \in 0..(loc.n_ent - 1) |-> RMul(loc.val[i * loc.n_ent + j], vec[j])],
          0, loc.n_ent)]

\* the cell builder (scratch) of a cell under a scheme whose cells carry n_dofs
CellBuilder(cm, n_dofs) == [hdg |-> HodgeOf(cm, n_dofs)]

(***************************************************************************)
(* Cellwise evaluators: each returns the caller's buffer after the call    *)
(***************************************************************************)
\* AddTo that sets to zero the entries it has nothing to add to
AddToCleared(values, add, n) ==
  Stored([v \in DOMAIN values |-> IF v < n THEN RAdd(values[v], add[v]) ELSE Zero])

\* values[v] += add[v] for v < n, the other entries unchanged
AddTo(values, add, n) ==
  Stored([v \in DOMAIN values |-> IF v < n THEN RAdd(values[v], add[v]) ELSE values[v]])

cs_source_term_pvsp_by_value(source, cm, cb, values) ==
  LET pot_value == source.val
      eval == [v \in 0..(cm.n_vc - 1) |-> pot_value]
      hdg_eval == cs_locmat_matvec(cb.hdg, eval)
  IN  AddTo(values, hdg_eval, cm.n_vc)

cs_source_term_pvsp_by_analytic(source, cm, cb, values) ==
  LET tcur == cs_time_step.t_cur
      eval == Ana(source.analytic, tcur, cm.n_vc, cm.xv)
      hdg_eval == cs_locmat_matvec(cb.hdg, eval)
  IN  AddTo(values, hdg_eval, cm.n_vc)

cs_source_term_dcsd_by_value(source, cm, cb, values) ==
  LET density_value == source.val
  IN  AddTo(values, [v \in 0..(cm.n_vc - 1) |-> RMul(density_value, cm.wvc[v])],
            cm.n_vc)

cs_source_term_vcsp_by_value(source, cm, cb, values) ==
  LET pot_value == source.val
      eval == [v \in 0..cm.n_vc |-> pot_value]
      hdg_eval == cs_locmat_matvec(cb.hdg, eval)
  IN  AddTo(values, hdg_eval, cm.n_vc + 1)

cs_source_term_vcsp_by_analytic(source, cm, cb, values) ==
  LET tcur == cs_time_step.t_cur
      ev == Ana(source.analytic, tcur, cm.n_vc, cm.xv)
      ec == Ana(source.analytic, tcur, 1, Arr(<<cm.xc>>))
      eval == [v \in 0..cm.n_vc |-> IF v < cm.n_vc THEN ev[v] ELSE ec[0]]
      hdg_eval == cs_locmat_matvec(cb.hdg, eval)
  IN  AddTo(values, hdg_eval, cm.n_vc + 1)

\* the sub-tetrahedra of a cell in the order of the loops on faces and on the
\* edges of each face: for each, its face f, edge e and the two vertices of e
SubTets(cm) ==
  Stored([i \in 0..(cm.f2e_idx[cm.n_fc] - 1) |->
    LET f == CHOOSE g \in 0..(cm.n_fc - 1) : cm.f2e_idx[g] <= i /\ i < cm.f2e_idx[g + 1]
        e == cm.f2e_ids[i]
    IN  [f |-> f, e |-> e, v1 |-> cm.e2v_ids[2 * e], v2 |-> cm.e2v_ids[2 * e + 1]]])

\* xg = 0.25 (xv1 + xe + xf + xc) with xe = 0.5 (xv1 + xv2), xfc = 0.25 (xf + xc)
SubTetBary(xfc, xva, xvb) ==
  VAdd(xfc, VAdd(VScale(Q(3, 8), xva), VScale(Q(1, 8), xvb)))

\* xgv[v1] += tet_vol * xg1 and xgv[v2] += tet_vol * xg2 for one sub-tetrahedron
bary_xgv_add(xgv, v1, v2, xv1, xv2, xfc, tet_vol) ==
  [xgv EXCEPT ![v1] = VAdd(@, VScale(tet_vol, SubTetBary(xfc, xv1, xv2))),
              ![v2] = VAdd(@, VScale(tet_vol, SubTetBary(xfc, xv2, xv1)))]

\* the loop on the sub-tetrahedra st[s.i], st[s.i + 1], ... with xgv = s.xgv
RECURSIVE bary_xgv(_, _, _)
bary_xgv(cm, st, s) ==
  IF s.i >= Cardinality(DOMAIN st) THEN s.xgv
  ELSE LET xf == cm.face[st[s.i].f].center
           v1 == st[s.i].v1
           v2 == st[s.i].v2
       IN  bary_xgv(cm, st,
             [i |-> s.i + 1,
              xgv |-> bary_xgv_add(s.xgv, v1, v2, cm.xv[v1], cm.xv[v2],
                                   VScale(Q(1, 4), VAdd(xf, cm.xc)),
                                   RMul(Q(1, 2),
                                        cs_math_voltet(cm.xv[v1], cm.xv[v2], xf, cm.xc)))])

\* xgv[v] *= invvol with invvol = 1/(vol_c * wvc[v]), for every vertex
bary_xgv_scale(cm, xgv) ==
  Stored([v \in 0..(cm.n_vc - 1) |->
            VScale(RDiv(R(1), RMul(cm.vol_c, cm.wvc[v])), xgv[v])])

\* result[0..n_vc-1]: the analytic function at the barycenters of the portions
\* of dual cells
bary_result(ana, cm) ==
  Ana(ana, cs_time_step.t_cur, cm.n_vc,
      bary_xgv_scale(cm,
        bary_xgv(cm, SubTets(cm),
                 [i |-> 0, xgv |-> Stored([v \in 0..(cm.n_vc - 1) |-> P3(0, 0, 0)])])))

\* bary_result for each analytic function and each cell, computed
\* once
BaryResults ==
  Stored([ana \in AnalyticFuncs |->
            Stored([c \in DOMAIN GeomCells |-> bary_result(ana, GeomCells[c])])])

cs_source_term_dcsd_bary_by_analytic(source, cm, cb, values) ==
  Stored([v \in DOMAIN values |->
            IF v < cm.n_vc
            THEN RMul(RMul(cm.vol_c, cm.wvc[v]),
                      BaryResults[source.analytic][cm.c_id][v])
            ELSE values[v]])

\* tet_vol * result[0] and tet_vol * result[1]
q1o1_scaled(tet_vol, result) == <<RMul(tet_vol, result[0]), RMul(tet_vol, result[1])>>

\* what the loop adds to values[v1] and to values[v2] for one sub-tetrahedron
q1o1_tet(ana, xv1, xv2, xfc, tet_vol) ==
  q1o1_scaled(tet_vol,
              Ana(ana, cs_time_step.t_cur, 2,
                  Arr(<<SubTetBary(xfc, xv1, xv2), SubTetBary(xfc, xv2, xv1)>>)))

\* q1o1_tet of each sub-tetrahedron of st
q1o1_adds(ana, cm, st) ==
  Stored([i \in DOMAIN st |->
    LET xf == cm.face[st[i].f].center
        xv1 == cm.xv[st[i].v1]
        xv2 == cm.xv[st[i].v2]
    IN  q1o1_tet(ana, xv1, xv2, VScale(Q(1, 4), VAdd(xf, cm.xc)),
                 RMul(Q(1, 2), cs_math_voltet(xv1, xv2, xf, cm.xc)))])

\* q1o1_adds for each analytic function and each cell, computed once
Q1o1Adds ==
  Stored([ana \in AnalyticFuncs |->
            Stored([c \in DOMAIN GeomCells |->
                      q1o1_adds(ana, GeomCells[c], SubTets(GeomCells[c]))])])

\* the loop on the sub-tetrahedra st[s.i], st[s.i + 1], ... with values = s.values
RECURSIVE q1o1_loop(_, _, _)
q1o1_loop(adds, st, s) ==
  IF s.i >= Cardinality(DOMAIN st) THEN s.values
  ELSE q1o1_loop(adds, st,
         [i |-> s.i + 1,
          values |-> [s.values EXCEPT ![st[s.i].v1] = RAdd(@, adds[s.i][1]),
                                      ![st[s.i].v2] = RAdd(@, adds[s.i][2])]])

cs_source_term_dcsd_q1o1_by_analytic(source, cm, cb, values) ==
  q1o1_loop(Q1o1Adds[source.analytic][cm.c_id], SubTets(cm),
            [i |-> 0, values |-> Stored(values)])

(***************************************************************************)
(* Ten-point rule (exact for quadratics).  The temporary buffers all live  *)
(* in cb->values (vals) and cb->vectors, at the offsets of the code:       *)
(* contrib at 0, result_v and pec_vol at n_vc, result_vc, pfv_vol, val_ev  *)
(* and val_ec at 2*n_vc; xvc, xev and xe at 0 of the vectors, xec at n_ec. *)
(* Each step takes cb->values as it stands and returns it after the step.  *)
(***************************************************************************)
ScratchSize(cm) == 3 * cm.n_vc + 2 * cm.n_ec

At1(x) == Arr(<<x>>)

\* vals with the entries off, off + 1, ..., off + n - 1 set to a[0..n-1]
Store(vals, off, n, a) ==
  Stored([k \in DOMAIN vals |-> IF off <= k /\ k < off + n THEN a[k - off] ELSE vals[k]])

\* contrib[v1] += x; contrib[v2] += x
AddAt2(vals, v1, v2, x) == [vals EXCEPT ![v1] = RAdd(@, x), ![v2] = RAdd(@, x)]

\* ana(tcur, n_vc, cm->xv, result_v)
q10o2_result_v(ana, cm, vals) ==
  Store(vals, cm.n_vc, cm.n_vc, Ana(ana, cs_time_step.t_cur, cm.n_vc, cm.xv))

\* xvc[v] = 0.5 (xc + xv), then ana(tcur, n_vc, xvc, result_vc)
q10o2_result_vc(ana, cm, vals) ==
  Store(vals, 2 * cm.n_vc, cm.n_vc,
        Ana(ana, cs_time_step.t_cur, cm.n_vc,
            Stored([v \in 0..(cm.n_vc - 1) |-> VScale(Q(1, 2), VAdd(cm.xc, cm.xv[v]))])))

\* contrib[v] = wvc[v] vol_c (-0.05 (val_c + result_v[v]) + 0.2 result_vc[v])
q10o2_contrib_v(cm, val_c, vals) ==
  Store(vals, 0, cm.n_vc,
        [v \in 0..(cm.n_vc - 1) |->
           RMul(RMul(cm.wvc[v], cm.vol_c),
                RAdd(RMul(Q(-1, 20), RAdd(val_c, vals[cm.n_vc + v])),
                     RMul(Q(1, 5), vals[2 * cm.n_vc + v])))])

\* pec_vol[e] = 0 for every edge
q10o2_reset_pec_vol(cm, vals) ==
  Store(vals, cm.n_vc, cm.n_ec, [e \in 0..(cm.n_ec - 1) |-> Zero])

\* the contribution of the vertices, then the reset of pec_vol
q10o2_vertices(ana, cm, vals) ==
  q10o2_reset_pec_vol(cm,
    q10o2_contrib_v(cm, Ana(ana, cs_time_step.t_cur, 1, At1(cm.xc))[0],
      q10o2_result_vc(ana, cm, q10o2_result_v(ana, cm, vals))))

\* the body of the loop on the edges of a face, for the edge e = (v1, v2)
q10o2_face_edge(ana, cm, xf, e, v1, v2, pef_vol, vals) ==
  AddAt2([vals EXCEPT ![cm.n_vc + e] = RAdd(@, pef_vol),
                      ![2 * cm.n_vc + v1] = RAdd(@, RMul(Q(1, 2), pef_vol)),
                      ![2 * cm.n_vc + v2] = RAdd(@, RMul(Q(1, 2), pef_vol))],
         v1, v2,
         RMul(RMul(Q(1, 10), pef_vol),
              Ana(ana, cs_time_step.t_cur, 1,
                  At1(VScale(Q(1, 2), VAdd(cm.edge[e].center, xf))))[0]))

\* the edges of face f, from position s.i of f2e_ids on
RECURSIVE q10o2_face_edges(_, _, _, _)
q10o2_face_edges(ana, cm, f, s) ==
  IF s.i >= cm.f2e_idx[f + 1] THEN s.vals
  ELSE LET xf == cm.face[f].center
           e == cm.f2e_ids[s.i]
           v1 == cm.e2v_ids[2 * e]
           v2 == cm.e2v_ids[2 * e + 1]
       IN  q10o2_face_edges(ana, cm, f,
             [i |-> s.i + 1,
              vals |-> q10o2_face_edge(ana, cm, xf, e, v1, v2,
                         cs_math_voltet(cm.xv[v1], cm.xv[v2], xf, cm.xc), s.vals)])

\* val_f = -0.05 ana(xf) + 0.2 ana(xfc) with xfc = 0.5 (xf + xc)
q10o2_val_f(ana, xf, xc) ==
  RAdd(RMul(Ana(ana, cs_time_step.t_cur, 1, At1(xf))[0], Q(-1, 20)),
       RMul(Q(1, 5),
            Ana(ana, cs_time_step.t_cur, 1, At1(VScale(Q(1, 2), VAdd(xf, xc))))[0]))

\* the vertices of a face, after its edges: vertex s.v onwards
RECURSIVE q10o2_face_vertices(_, _, _, _, _)
q10o2_face_vertices(ana, cm, xf, val_f, s) ==
  IF s.v >= cm.n_vc THEN s.vals
  ELSE q10o2_face_vertices(ana, cm, xf, val_f,
         [v |-> s.v + 1,
          vals |->
            IF RPos(s.vals[2 * cm.n_vc + s.v])
            THEN [s.vals EXCEPT ![s.v] =
                    RAdd(@, RMul(s.vals[2 * cm.n_vc + s.v],
                                 RAdd(val_f,
                                      RMul(Q(1, 5),
                                           Ana(ana, cs_time_step.t_cur, 1,
                                               At1(VScale(Q(1, 2),
                                                          VAdd(xf, cm.xv[s.v]))))[0]))))]
            ELSE s.vals])

\* the main loop on faces, from face s.f on: reset of pfv_vol, loop on the
\* edges of the face, then loop on the vertices
RECURSIVE q10o2_faces(_, _, _)
q10o2_faces(ana, cm, s) ==
  IF s.f >= cm.n_fc THEN s.vals
  ELSE q10o2_faces(ana, cm,
         [f |-> s.f + 1,
          vals |->
            q10o2_face_vertices(ana, cm, cm.face[s.f].center,
              q10o2_val_f(ana, cm.face[s.f].center, cm.xc),
              [v |-> 0,
               vals |-> q10o2_face_edges(ana, cm, s.f,
                          [i |-> cm.f2e_idx[s.f],
                           vals |-> Store(s.vals, 2 * cm.n_vc, cm.n_vc,
                                          [v \in 0..(cm.n_vc - 1) |-> Zero])])])])

\* xev[2e] = 0.5 (xv1 + xe), xev[2e+1] = 0.5 (xv2 + xe), then
\* ana(tcur, 2 n_ec, xev, val_ev)
q10o2_val_ev(ana, cm, vals) ==
  Store(vals, 2 * cm.n_vc, 2 * cm.n_ec,
        Ana(ana, cs_time_step.t_cur, 2 * cm.n_ec,
            Stored([k \in 0..(2 * cm.n_ec - 1) |->
                      VScale(Q(1, 2), VAdd(cm.xv[cm.e2v_ids[k]],
                                           cm.edge[k \div 2].center))])))

\* first loop on edges: the mid-points between an edge centre and its vertices
RECURSIVE q10o2_edges_ev(_, _)
q10o2_edges_ev(cm, s) ==
  IF s.e >= cm.n_ec THEN s.vals
  ELSE LET n_vc == cm.n_vc
           e == s.e
           vol_e == RMul(Q(1, 10), s.vals[n_vc + e])
           v1 == cm.e2v_ids[2 * e]
           v2 == cm.e2v_ids[2 * e + 1]
       IN  q10o2_edges_ev(cm,
             [e |-> e + 1,
              vals |-> [s.vals EXCEPT
                          ![v1] = RAdd(@, RMul(vol_e, s.vals[2 * n_vc + 2 * e])),
                          ![v2] = RAdd(@, RMul(vol_e, s.vals[2 * n_vc + 2 * e + 1]))]])

\* xe[e] = edge centre, xec[e] = 0.5 (xc + edge centre), then
\* ana(tcur, 2 n_ec, xe, val_ec)
q10o2_val_ec(ana, cm, vals) ==
  Store(vals, 2 * cm.n_vc, 2 * cm.n_ec,
        Ana(ana, cs_time_step.t_cur, 2 * cm.n_ec,
            Stored([k \in 0..(2 * cm.n_ec - 1) |->
                      IF k < cm.n_ec THEN cm.edge[k].center
                      ELSE VScale(Q(1, 2), VAdd(cm.xc, cm.edge[k - cm.n_ec].center))])))

\* last loop on edges: the edge centres and their mid-points with the cell centre
RECURSIVE q10o2_edges_ec(_, _)
q10o2_edges_ec(cm, s) ==
  IF s.e >= cm.n_ec THEN s.vals
  ELSE q10o2_edges_ec(cm,
         [e |-> s.e + 1,
          vals |-> AddAt2(s.vals, cm.e2v_ids[2 * s.e], cm.e2v_ids[2 * s.e + 1],
                     RMul(RMul(Q(1, 2), s.vals[cm.n_vc + s.e]),
                          RAdd(RMul(Q(-1, 20), s.vals[2 * cm.n_vc + 2 * s.e]),
                               RMul(Q(1, 5), s.vals[2 * cm.n_vc + 2 * s.e + 1]))))])

\* cb->values at the end of the evaluator: contrib is its first n_vc entries
q10o2_scratch(ana, cm) ==
  q10o2_edges_ec(cm,
    [e |-> 0,
     vals |-> q10o2_val_ec(ana, cm,
       q10o2_edges_ev(cm,
         [e |-> 0,
          vals |-> q10o2_val_ev(ana, cm,
            q10o2_faces(ana, cm,
              [f |-> 0,
               vals |-> q10o2_vertices(ana, cm,
                          Stored([k \in 0..(ScratchSize(cm) - 1) |-> Zero]))]))]))])

\* q10o2_scratch for each analytic function and each cell, computed
\* once
Q10o2Scratch ==
  Stored([ana \in AnalyticFuncs |->
            Stored([c \in DOMAIN GeomCells |-> q10o2_scratch(ana, GeomCells[c])])])

\* values[v] += contrib[v], contrib being the first n_vc entries of cb->values
cs_source_term_dcsd_q10o2_by_analytic(source, cm, cb, values) ==
  AddTo(values, Q10o2Scratch[source.analytic][cm.c_id], cm.n_vc)

(***************************************************************************)
(* Five-point rule (exact for cubics)                                      *)
(***************************************************************************)
\* the five Gauss points, xve being xv + xe and xfc being xf + xc
tet_5pts_gpts(xv, xe, xf, xc, xve, xfc) ==
  Arr(<<VScale(Q(1, 4), VAdd(xve, xfc)),
        VAdd(VScale(Q(1, 6), VAdd(xve, xf)), VScale(Q(1, 2), xc)),
        VAdd(VScale(Q(1, 6), VAdd(xve, xc)), VScale(Q(1, 2), xf)),
        VAdd(VScale(Q(1, 6), VAdd(xv, xfc)), VScale(Q(1, 2), xe)),
        VAdd(VScale(Q(1, 6), VAdd(xe, xfc)), VScale(Q(1, 2), xv))>>)

\* the five weights, wv1 being -0.8 vol and wv2 being 0.45 vol
tet_5pts_weights(wv1, wv2) == Arr(<<wv1, wv2, wv2, wv2, wv2>>)

\* Gauss points and weights of the tetrahedron (xv, xe, xf, xc) of volume vol
cs_quadrature_tet_5pts(xv, xe, xf, xc, vol) ==
  [gpts |-> tet_5pts_gpts(xv, xe, xf, xc, VAdd(xv, xe), VAdd(xf, xc)),
   weights |-> tet_5pts_weights(RMul(Q(-4, 5), vol), RMul(Q(9, 20), vol))]

\* sum of results[p] * weights[p] over the five Gauss points
q5o3_weighted(results, weights) ==
  RSum(Stored([p \in 0..4 |-> RMul(results[p], weights[p])]), 0, 5)

\* ana at the Gauss points g.gpts, then the weighted sum
q5o3_sum(ana, g) == q5o3_weighted(Ana(ana, cs_time_step.t_cur, 5, g.gpts), g.weights)

\* the body of the loop for the sub-tetrahedron of face centre xf and edge
\* e = (v1, v2): contrib[v1] += sum, then contrib[v2] += sum
q5o3_tet(ana, cm, xf, e, v1, v2, tet_vol, contrib) ==
  [contrib EXCEPT
     ![v1] = RAdd(@, q5o3_sum(ana, cs_quadrature_tet_5pts(cm.xv[v1], cm.edge[e].center,
                                                          xf, cm.xc, tet_vol))),
     ![v2] = RAdd(@, q5o3_sum(ana, cs_quadrature_tet_5pts(cm.xv[v2], cm.edge[e].center,
                                                          xf, cm.xc, tet_vol)))]

\* the loop on the sub-tetrahedra st[s.i], st[s.i + 1], ... with contrib = s.contrib
RECURSIVE q5o3_loop(_, _, _, _)
q5o3_loop(ana, cm, st, s) ==
  IF s.i >= Cardinality(DOMAIN st) THEN s.contrib
  ELSE LET xf == cm.face[st[s.i].f].center
           v1 == st[s.i].v1
           v2 == st[s.i].v2
       IN  q5o3_loop(ana, cm, st,
             [i |-> s.i + 1,
              contrib |-> q5o3_tet(ana, cm, xf, st[s.i].e, v1, v2,
                            RMul(Q(1, 2), cs_math_voltet(cm.xv[v1], cm.xv[v2], xf, cm.xc)),
                            s.contrib)])

q5o3_contrib(ana, cm) ==
  q5o3_loop(ana, cm, SubTets(cm),
            [i |-> 0, contrib |-> Stored([v \in 0..(cm.n_vc - 1) |-> Zero])])

\* q5o3_contrib for each analytic function and each cell, computed
\* once
Q5o3Contribs ==
  Stored([ana \in AnalyticFuncs |->
            Stored([c \in DOMAIN GeomCells |-> q5o3_contrib(ana, GeomCells[c])])])

cs_source_term_dcsd_q5o3_by_analytic(source, cm, cb, values) ==
  AddTo(values, Q5o3Contribs[source.analytic][cm.c_id], cm.n_vc)

(***************************************************************************)
(* Flags, mesh locations and the registry of source terms                  *)
(***************************************************************************)
\* a cs_flag_t is the set of the names of its bits
CS_FLAG_PRIMAL == "CS_FLAG_PRIMAL"
CS_FLAG_DUAL == "CS_FLAG_DUAL"
CS_FLAG_VERTEX == "CS_FLAG_VERTEX"
CS_FLAG_CELL == "CS_FLAG_CELL"
CS_FLAG_FULL_LOC == "CS_FLAG_FULL_LOC"
CS_FLAG_SCALAR == "CS_FLAG_SCALAR"
CS_FLAG_VECTOR == "CS_FLAG_VECTOR"
CS_FLAG_TENSOR == "CS_FLAG_TENSOR"
CS_FLAG_SYS_SOURCETERM == "CS_FLAG_SYS_SOURCETERM"
CS_FLAG_SYS_HLOC_CONF == "CS_FLAG_SYS_HLOC_CONF"
CS_FLAG_SYS_SOURCES_HLOC == "CS_FLAG_SYS_SOURCES_HLOC"
CS_FLAG_STATE_OWNER == "CS_FLAG_STATE_OWNER"

\* the null pointer to a string or to a function
NULL == "NULL"

\* the null pointer to an array of numbers: an array with no element
NoArray == <<>>

\* mesh locations: location 0 is the whole mesh (no element list), locations 1
\* and 2 list their cells, location 3 lists vertices, and location 4 is a
\* location of cells whose list holds an index that is not a cell of the mesh
MeshLocations ==
  Arr(<<[type |-> "CS_MESH_LOCATION_CELLS", elt_list |-> NoArray],
        [type |-> "CS_MESH_LOCATION_CELLS", elt_list |-> Arr(<<0>>)],
        [type |-> "CS_MESH_LOCATION_CELLS", elt_list |-> Arr(<<1>>)],
        [type |-> "CS_MESH_LOCATION_VERTICES", elt_list |-> Arr(<<0, 3>>)],
        [type |-> "CS_MESH_LOCATION_CELLS", elt_list |-> Arr(<<1, n_cells>>)]>>)

cs_mesh_location_get_type(ml_id) == MeshLocations[ml_id].type

cs_mesh_location_get_elt_list(ml_id) == MeshLocations[ml_id].elt_list

\* n_elts[0]: the number of elements of the location
cs_mesh_location_get_n_elts(ml_id) ==
  IF MeshLocations[ml_id].elt_list = NoArray THEN n_cells
  ELSE Cardinality(DOMAIN MeshLocations[ml_id].elt_list)

\* "%2d" of sprintf for 0 <= id < 100
Fmt2d(id) == IF id < 10 THEN " " \o ToString(id) ELSE ToString(id)

\* _get_name without the copy of the name given
_get_name_by_default(name, base_name, id) == base_name \o "_" \o Fmt2d(id)

_get_name(name, base_name, id) ==
  IF name = NULL THEN base_name \o "_" \o Fmt2d(id) ELSE name

\* the flag set by the three cs_source_term_def_by_* functions
DefFlag(flag, ml_id, var_type) ==
  flag \cup (IF cs_mesh_location_get_elt_list(ml_id) = NoArray THEN {CS_FLAG_FULL_LOC} ELSE {})
       \cup (CASE var_type = "CS_PARAM_VAR_SCAL" -> {CS_FLAG_SCALAR}
               [] var_type = "CS_PARAM_VAR_VECT" -> {CS_FLAG_VECTOR}
               [] var_type = "CS_PARAM_VAR_TENS" -> {CS_FLAG_TENSOR}
               [] OTHER -> {})

\* the structure set by cs_source_term_def_by_value; val is the number read
\* from the string given by the caller
DefByValue(st_id, name, var_type, ml_id, flag, val) ==
  [name |-> _get_name(name, "sourceterm", st_id),
   ml_id |-> ml_id,
   flag |-> DefFlag(flag, ml_id, var_type),
   def_type |-> "CS_PARAM_DEF_BY_VALUE",
   val |-> val, analytic |-> NULL,
   quad_type |-> "CS_QUADRATURE_BARY",
   array_desc |-> [location |-> {}, state |-> {}],
   array |-> NULL]

DefByAnalytic(st_id, name, var_type, ml_id, flag, func) ==
  [name |-> _get_name(name, "sourceterm", st_id),
   ml_id |-> ml_id,
   flag |-> DefFlag(flag, ml_id, var_type),
   def_type |-> "CS_PARAM_DEF_BY_ANALYTIC_FUNCTION",
   val |-> Zero, analytic |-> func,
   quad_type |-> "CS_QUADRATURE_BARY",
   array_desc |-> [location |-> {}, state |-> {}],
   array |-> NULL]

DefByArray(st_id, name, var_type, ml_id, flag, desc, array) ==
  [name |-> _get_name(name, "sourceterm", st_id),
   ml_id |-> ml_id,
   flag |-> DefFlag(flag, ml_id, var_type),
   def_type |-> "CS_PARAM_DEF_BY_ARRAY",
   val |-> Zero, analytic |-> NULL,
   quad_type |-> "CS_QUADRATURE_BARY",
   array_desc |-> [location |-> desc.location, state |-> desc.state],
   array |-> array]

\* the null pointer to a cs_source_term_t; any other pointer is the index of
\* the structure in the array of the source terms
NoTerm == -1

\* how a cs_source_term_def_by_* call ends, the structure being set to def:
\* "bft_error" (fatal error), "assert" (failed assertion, builds without NDEBUG
\* only) or "ok" (the call returns)
DefStatus(st, var_type, ml_id, ndebug) ==
  CASE st = NoTerm -> "bft_error"
    [] ~ndebug /\ (ml_id = -1 \/ cs_mesh_location_get_type(ml_id) # "CS_MESH_LOCATION_CELLS") ->
         "assert"
    [] var_type \notin {"CS_PARAM_VAR_SCAL", "CS_PARAM_VAR_VECT", "CS_PARAM_VAR_TENS"} ->
         "bft_error"
    [] OTHER -> "ok"

\* the three functions as calls: status as in DefStatus, and st the structure
\* once the call has returned
cs_source_term_def_by_value(st, st_id, name, var_type, ml_id, flag, val, ndebug) ==
  [status |-> DefStatus(st, var_type, ml_id, ndebug),
   st |-> DefByValue(st_id, name, var_type, ml_id, flag, val)]

cs_source_term_def_by_analytic(st, st_id, name, var_type, ml_id, flag, func, ndebug) ==
  [status |-> DefStatus(st, var_type, ml_id, ndebug),
   st |-> DefByAnalytic(st_id, name, var_type, ml_id, flag, func)]

cs_source_term_def_by_array(st, st_id, name, var_type, ml_id, flag, desc, array, ndebug) ==
  [status |-> DefStatus(st, var_type, ml_id, ndebug),
   st |-> DefByArray(st_id, name, var_type, ml_id, flag, desc, array)]

\* the two accessors, source_terms being the array that st points into; with
\* st == NULL cs_source_term_get_flag ends in bft_error, shown as a flag that
\* holds "bft_error" only
cs_source_term_get_flag(source_terms, st) ==
  IF st = NoTerm THEN {"bft_error"} ELSE source_terms[st + 1].flag

cs_source_term_get_name(source_terms, st) ==
  IF st = NoTerm THEN NULL ELSE source_terms[st + 1].name

(***************************************************************************)
(* cs_source_term_init: the dispatch table and the mask of the cells       *)
(***************************************************************************)
\* maximal number of source terms of an equation
CS_N_MAX_SOURCE_TERMS == 8

\* number of bits of a cs_mask_t
CS_MASK_BITS == 8

RECURSIVE Pow2(_)
Pow2(n) == IF n = 0 THEN 1 ELSE 2 * Pow2(n - 1)

\* a | b and a & b on non-negative integers
RECURSIVE BitOr(_, _)
BitOr(a, b) ==
  IF a = 0 THEN b
  ELSE IF b = 0 THEN a
  ELSE (IF a % 2 = 1 \/ b % 2 = 1 THEN 1 ELSE 0) + 2 * BitOr(a \div 2, b \div 2)

\* | written where & is meant
BitAndAsOr(a, b) == BitOr(a, b)

RECURSIVE BitAnd(_, _)
BitAnd(a, b) ==
  IF a = 0 \/ b = 0 THEN 0
  ELSE (IF a % 2 = 1 /\ b % 2 = 1 THEN 1 ELSE 0) + 2 * BitAnd(a \div 2, b \div 2)

\* MaskOf shifted by one bit too many
MaskOfNext(st_id) == Pow2(st_id + 1) % Pow2(CS_MASK_BITS)

\* (1 << st_id) stored in a cs_mask_t
MaskOf(st_id) == Pow2(st_id) % Pow2(CS_MASK_BITS)

\* cell_mask[elt_ids[s.i]] |= mask for the elements s.i, s.i + 1, ... of the list;
\* cell_mask is the block of the mask, which a write at an index outside the
\* block leaves as it is
RECURSIVE SetMaskList(_, _, _, _)
SetMaskList(elt_ids, n_elts, mask, s) ==
  IF s.i >= n_elts THEN s.cell_mask
  ELSE SetMaskList(elt_ids, n_elts, mask,
                   [i |-> s.i + 1,
                    cell_mask |-> IF elt_ids[s.i] \in DOMAIN s.cell_mask
                                  THEN [s.cell_mask EXCEPT ![elt_ids[s.i]] = BitOr(@, mask)]
                                  ELSE s.cell_mask])

\* the indices outside the block of the mask at which _set_mask writes for the
\* term st: cell_mask[elt_ids[i]] |= mask with elt_ids[i] not in 0..n_cells-1
OutsideWrites(st, cell_mask) ==
  IF CS_FLAG_FULL_LOC \in st.flag THEN {}
  ELSE {cs_mesh_location_get_elt_list(st.ml_id)[i] :
          i \in 0..(cs_mesh_location_get_n_elts(st.ml_id) - 1)} \ DOMAIN cell_mask

\* _set_mask marking the first n_elts cells instead of the cells of the list
_set_mask_by_position(st, st_id, cell_mask) ==
  LET mask == MaskOf(st_id)
  IN  IF CS_FLAG_FULL_LOC \in st.flag
      THEN Stored([i \in DOMAIN cell_mask |-> BitOr(cell_mask[i], mask)])
      ELSE Stored([i \in DOMAIN cell_mask |->
                     IF i < cs_mesh_location_get_n_elts(st.ml_id)
                     THEN BitOr(cell_mask[i], mask)
                     ELSE cell_mask[i]])

_set_mask(st, st_id, cell_mask) ==
  LET mask == MaskOf(st_id)
  IN  IF CS_FLAG_FULL_LOC \in st.flag
      THEN Stored([i \in DOMAIN cell_mask |-> BitOr(cell_mask[i], mask)])
      ELSE SetMaskList(cs_mesh_location_get_elt_list(st.ml_id),
                       cs_mesh_location_get_n_elts(st.ml_id), mask,
                       [i |-> 0, cell_mask |-> cell_mask])

\* the switch on the space scheme for one term: the function stored in
\* compute_source[st_id], or "bft_error" when the term is rejected, or
\* "assert" when an assertion fails (builds without NDEBUG only)
DispatchPrimal(st, ndebug, by_value, by_analytic) ==
  IF ~ndebug /\ CS_FLAG_PRIMAL \notin st.flag THEN "assert"
  ELSE CASE st.def_type = "CS_PARAM_DEF_BY_VALUE" -> by_value
         [] st.def_type = "CS_PARAM_DEF_BY_ANALYTIC_FUNCTION" -> by_analytic
         [] OTHER -> "bft_error"

\* DispatchDualVb whose default cases leave the switch without an error
DispatchDualVbSkipping(st) ==
  CASE st.def_type = "CS_PARAM_DEF_BY_VALUE" -> "cs_source_term_dcsd_by_value"
    [] st.def_type = "CS_PARAM_DEF_BY_ANALYTIC_FUNCTION" ->
         (CASE st.quad_type = "CS_QUADRATURE_BARY" -> "cs_source_term_dcsd_bary_by_analytic"
            [] st.quad_type = "CS_QUADRATURE_BARY_SUBDIV" ->
                 "cs_source_term_dcsd_q1o1_by_analytic"
            [] st.quad_type = "CS_QUADRATURE_HIGHER" ->
                 "cs_source_term_dcsd_q10o2_by_analytic"
            [] st.quad_type = "CS_QUADRATURE_HIGHEST" ->
                 "cs_source_term_dcsd_q5o3_by_analytic"
            [] OTHER -> NULL)
    [] OTHER -> NULL

\* the switch on the definition of a density under the vertex-based scheme
DispatchDualVb(st) ==
  CASE st.def_type = "CS_PARAM_DEF_BY_VALUE" -> "cs_source_term_dcsd_by_value"
    [] st.def_type = "CS_PARAM_DEF_BY_ANALYTIC_FUNCTION" ->
         (CASE st.quad_type = "CS_QUADRATURE_BARY" -> "cs_source_term_dcsd_bary_by_analytic"
            [] st.quad_type = "CS_QUADRATURE_BARY_SUBDIV" ->
                 "cs_source_term_dcsd_q1o1_by_analytic"
            [] st.quad_type = "CS_QUADRATURE_HIGHER" ->
                 "cs_source_term_dcsd_q10o2_by_analytic"
            [] st.quad_type = "CS_QUADRATURE_HIGHEST" ->
                 "cs_source_term_dcsd_q5o3_by_analytic"
            [] OTHER -> "bft_error")
    [] OTHER -> "bft_error"

Dispatch(space_scheme, st, ndebug) ==
  CASE space_scheme = "CS_SPACE_SCHEME_CDOVB" ->
         IF CS_FLAG_DUAL \in st.flag THEN DispatchDualVb(st)
         ELSE DispatchPrimal(st, ndebug, "cs_source_term_pvsp_by_value",
                             "cs_source_term_pvsp_by_analytic")
    [] space_scheme = "CS_SPACE_SCHEME_CDOVCB" ->
         IF CS_FLAG_DUAL \in st.flag THEN "bft_error"
         ELSE DispatchPrimal(st, ndebug, "cs_source_term_vcsp_by_value",
                             "cs_source_term_vcsp_by_analytic")
    [] OTHER -> "bft_error"

\* the full-domain test with its sense inverted
OnWholeMesh(st) == CS_FLAG_FULL_LOC \in st.flag

\* (st->flag & CS_FLAG_FULL_LOC) == 0: the term is not defined on the whole mesh
NotOnWholeMesh(st) == CS_FLAG_FULL_LOC \notin st.flag

\* the loop on the source terms, from term s.st_id on; source_terms is the
\* array of the terms, term st_id at source_terms[st_id + 1]
RECURSIVE InitLoop(_, _, _, _, _)
InitLoop(space_scheme, n_source_terms, source_terms, ndebug, s) ==
  IF s.st_id >= n_source_terms THEN s
  ELSE LET st == source_terms[s.st_id + 1]
           flag1 == IF CS_FLAG_PRIMAL \in st.flag
                    THEN s.sys_flag \cup {CS_FLAG_SYS_HLOC_CONF, CS_FLAG_SYS_SOURCES_HLOC}
                    ELSE s.sys_flag
           mask1 == s.need_mask \/ NotOnWholeMesh(st)
           h == Dispatch(space_scheme, st, ndebug)
       IN  IF h \in {"assert", "bft_error"}
           THEN [s EXCEPT !.status = h, !.sys_flag = flag1, !.need_mask = mask1]
           ELSE InitLoop(space_scheme, n_source_terms, source_terms, ndebug,
                         [st_id |-> s.st_id + 1,
                          status |-> s.status,
                          compute_source |-> [s.compute_source EXCEPT ![s.st_id] = h],
                          sys_flag |-> flag1,
                          need_mask |-> mask1])

\* the loop of the calls to _set_mask, from term s.st_id on
RECURSIVE MaskLoop(_, _, _)
MaskLoop(n_source_terms, source_terms, s) ==
  IF s.st_id >= n_source_terms THEN s.mask
  ELSE MaskLoop(n_source_terms, source_terms,
                [st_id |-> s.st_id + 1,
                 mask |-> _set_mask(source_terms[s.st_id + 1], s.st_id, s.mask)])

\* cs_source_term_init: what it leaves in compute_source, *sys_flag and
\* *source_mask, how it ends (status "ok": it returns), and oob, the indices
\* outside the block of the mask at which it has written
cs_source_term_init(space_scheme, n_source_terms, source_terms, compute_source, sys_flag, source_mask, ndebug) ==
  IF n_source_terms > CS_N_MAX_SOURCE_TERMS
  THEN [status |-> "bft_error", compute_source |-> compute_source,
        sys_flag |-> sys_flag, source_mask |-> source_mask, oob |-> {}]
  ELSE LET none == Stored([i \in 0..(CS_N_MAX_SOURCE_TERMS - 1) |-> NULL])
       IN  IF n_source_terms = 0
           THEN [status |-> "ok", compute_source |-> none,
                 sys_flag |-> sys_flag, source_mask |-> NoArray, oob |-> {}]
           ELSE LET r == InitLoop(space_scheme, n_source_terms, source_terms, ndebug,
                                  [st_id |-> 0, status |-> "ok", compute_source |-> none,
                                   sys_flag |-> sys_flag, need_mask |-> FALSE])
                    zero == Stored([i \in 0..(n_cells - 1) |-> 0])
                IN  [status |-> r.status,
                     compute_source |-> r.compute_source,
                     sys_flag |-> r.sys_flag,
                     source_mask |->
                       IF r.status = "ok" /\ r.need_mask
                       THEN MaskLoop(n_source_terms, source_terms,
                                     [st_id |-> 0, mask |-> zero])
                       ELSE NoArray,
                     oob |->
                       IF r.status = "ok" /\ r.need_mask
                       THEN UNION {OutsideWrites(source_terms[i], zero) :
                                     i \in 1..n_source_terms}
                       ELSE {}]

(***************************************************************************)
(* cs_source_term_compute_cellwise                                         *)
(***************************************************************************)
\* the call compute(source, cm, cb, values) through the function pointer h
Invoke(h, source, cm, cb, values) ==
  CASE h = "cs_source_term_pvsp_by_value" ->
         cs_source_term_pvsp_by_value(source, cm, cb, values)
    [] h = "cs_source_term_pvsp_by_analytic" ->
         cs_source_term_pvsp_by_analytic(source, cm, cb, values)
    [] h = "cs_source_term_dcsd_by_value" ->
         cs_source_term_dcsd_by_value(source, cm, cb, values)
    [] h = "cs_source_term_dcsd_bary_by_analytic" ->
         cs_source_term_dcsd_bary_by_analytic(source, cm, cb, values)
    [] h = "cs_source_term_dcsd_q1o1_by_analytic" ->
         cs_source_term_dcsd_q1o1_by_analytic(source, cm, cb, values)
    [] h = "cs_source_term_dcsd_q10o2_by_analytic" ->
         cs_source_term_dcsd_q10o2_by_analytic(source, cm, cb, values)
    [] h = "cs_source_term_dcsd_q5o3_by_analytic" ->
         cs_source_term_dcsd_q5o3_by_analytic(source, cm, cb, values)
    [] h = "cs_source_term_vcsp_by_value" ->
         cs_source_term_vcsp_by_value(source, cm, cb, values)
    [] h = "cs_source_term_vcsp_by_analytic" ->
         cs_source_term_vcsp_by_analytic(source, cm, cb, values)

\* ComputeLoop without the test of the mask
RECURSIVE ComputeLoopUnmasked(_, _, _, _, _, _, _)
ComputeLoopUnmasked(n_source_terms, source_terms, cm, source_mask, compute_source, cb, s) ==
  IF s.st_id >= n_source_terms \/ s.status # "ok" THEN s
  ELSE LET compute == compute_source[s.st_id]
       IN  IF compute = NULL
           THEN [s EXCEPT !.status = "null_call"]
           ELSE ComputeLoopUnmasked(n_source_terms, source_terms, cm, source_mask,
                                    compute_source, cb,
                                    [st_id |-> s.st_id + 1,
                                     status |-> "ok",
                                     source |-> Invoke(compute, source_terms[s.st_id + 1],
                                                       cm, cb, s.source),
                                     calls |-> Append(s.calls, <<s.st_id, compute>>)])

\* the loop on the source terms, from term s.st_id on: s.source is
\* csys->source, s.calls the calls made so far (term id and function called)
RECURSIVE ComputeLoop(_, _, _, _, _, _, _)
ComputeLoop(n_source_terms, source_terms, cm, source_mask, compute_source, cb, s) ==
  IF s.st_id >= n_source_terms \/ s.status # "ok" THEN s
  ELSE LET st_mask == MaskOf(s.st_id)
           active == source_mask = NoArray \/ BitAnd(source_mask[cm.c_id], st_mask) # 0
           compute == compute_source[s.st_id]
       IN  IF ~active
           THEN ComputeLoop(n_source_terms, source_terms, cm, source_mask,
                            compute_source, cb, [s EXCEPT !.st_id = @ + 1])
           ELSE IF compute = NULL
           THEN [s EXCEPT !.status = "null_call"]
           ELSE ComputeLoop(n_source_terms, source_terms, cm, source_mask,
                            compute_source, cb,
                            [st_id |-> s.st_id + 1,
                             status |-> "ok",
                             source |-> Invoke(compute, source_terms[s.st_id + 1], cm, cb,
                                               s.source),
                             calls |-> Append(s.calls, <<s.st_id, compute>>)])

\* cs_source_term_compute_cellwise without the reset of the buffer
compute_cellwise_without_reset(n_source_terms, source_terms, cm, sys_flag, source_mask, compute_source, cb, csys) ==
  LET s0 == [st_id |-> 0, status |-> "ok", source |-> Stored(csys.source), calls |-> <<>>]
  IN  IF CS_FLAG_SYS_SOURCETERM \notin sys_flag THEN s0
      ELSE ComputeLoop(n_source_terms, source_terms, cm, source_mask, compute_source, cb, s0)

\* cs_source_term_compute_cellwise on csys = [n_dofs, source]: csys->source
\* after the call, the calls made, and how it ends (status "ok": it returns;
\* "null_call": it calls through a null function pointer)
cs_source_term_compute_cellwise(n_source_terms, source_terms, cm, sys_flag, source_mask, compute_source, cb, csys) ==
  LET reset == Stored([i \in DOMAIN csys.source |->
                         IF i < csys.n_dofs THEN Zero ELSE csys.source[i]])
      s0 == [st_id |-> 0, status |-> "ok", source |-> reset, calls |-> <<>>]
  IN  IF CS_FLAG_SYS_SOURCETERM \notin sys_flag THEN s0
      ELSE ComputeLoop(n_source_terms, source_terms, cm, source_mask, compute_source, cb, s0)

\* cs_source_term_set_quadrature that leaves the structure as it is
cs_source_term_set_quadrature_unset(st, quad_type) == st

cs_source_term_set_quadrature(st, quad_type) == [st EXCEPT !.quad_type = quad_type]

\* cs_source_term_set_reduction that keeps of the flag the bits of the kind of
\* value only
cs_source_term_set_reduction_value_kind(st, flag, ndebug) ==
  LET save_flag == st.flag
      kept == save_flag \cap {CS_FLAG_SCALAR, CS_FLAG_VECTOR, CS_FLAG_TENSOR}
  IN  IF st.flag \cap flag # {} THEN [status |-> "ok", st |-> st]
      ELSE IF CS_FLAG_DUAL \in flag /\ CS_FLAG_VERTEX \in save_flag
      THEN [status |-> "ok",
            st |-> [st EXCEPT !.flag = kept \cup {CS_FLAG_DUAL, CS_FLAG_CELL}]]
      ELSE IF CS_FLAG_PRIMAL \in flag /\ CS_FLAG_CELL \in save_flag
      THEN [status |-> "ok",
            st |-> [st EXCEPT !.flag = kept \cup {CS_FLAG_PRIMAL, CS_FLAG_VERTEX}]]
      ELSE [status |-> "bft_error", st |-> [st EXCEPT !.flag = kept]]

\* cs_source_term_set_reduction(st, flag) on a structure: how it ends and the
\* structure after the call
cs_source_term_set_reduction(st, flag, ndebug) ==
  LET save_flag == st.flag
      kept == save_flag \cap {CS_FLAG_SCALAR, CS_FLAG_VECTOR, CS_FLAG_TENSOR,
                              "CS_FLAG_BORDER", "CS_FLAG_BY_CELL", CS_FLAG_FULL_LOC}
  IN  IF st.flag \cap flag # {} THEN [status |-> "ok", st |-> st]
      ELSE IF CS_FLAG_DUAL \in flag
      THEN IF ~ndebug /\ CS_FLAG_PRIMAL \notin save_flag
           THEN [status |-> "assert", st |-> [st EXCEPT !.flag = kept]]
           ELSE IF CS_FLAG_VERTEX \in save_flag
           THEN [status |-> "ok",
                 st |-> [st EXCEPT !.flag = kept \cup {CS_FLAG_DUAL, CS_FLAG_CELL}]]
           ELSE [status |-> "bft_error", st |-> [st EXCEPT !.flag = kept]]
      ELSE IF CS_FLAG_PRIMAL \in flag
      THEN IF ~ndebug /\ CS_FLAG_DUAL \notin save_flag
           THEN [status |-> "assert", st |-> [st EXCEPT !.flag = kept]]
           ELSE IF CS_FLAG_CELL \in save_flag
           THEN [status |-> "ok",
                 st |-> [st EXCEPT !.flag = kept \cup {CS_FLAG_PRIMAL, CS_FLAG_VERTEX}]]
           ELSE [status |-> "bft_error", st |-> [st EXCEPT !.flag = kept]]
      ELSE [status |-> "bft_error", st |-> [st EXCEPT !.flag = kept]]

(***************************************************************************)
(* The equation that owns the source terms: its registry, its dispatch     *)
(* table and mask, and the cellwise system it assembles                    *)
(***************************************************************************)
\* largest number of source terms defined for the equation
MaxTerms == 2

\* flags given by the callers of cs_source_term_def_by_*: a density on dual
\* cells, a potential at primal vertices, and no support at all
FlagInputs == {{CS_FLAG_DUAL, CS_FLAG_CELL}, {CS_FLAG_PRIMAL, CS_FLAG_VERTEX}, {}}

\* number of degrees of freedom of a cell for the caller of the assembly
NDofs(scheme, cm) ==
  CASE scheme = "CS_SPACE_SCHEME_CDOVB" -> cm.n_vc
    [] scheme = "CS_SPACE_SCHEME_CDOVCB" -> cm.n_vc + 1
    [] OTHER -> cm.n_fc

\* the caller's buffer has room for the vertices of a cell and the cell itself,
\* and one entry more than the cells of this mesh use; before any assembly it
\* holds numbers left there
Garbage == Stored([i \in 0..(MeshCells[0].n_vc + 1) |-> R(7 + i)])

ZeroBuffer == Stored([i \in DOMAIN Garbage |-> Zero])

eq_n_terms == Len(eq_terms)

NoHandles == Stored([i \in 0..(CS_N_MAX_SOURCE_TERMS - 1) |-> NULL])

\* the state after the creation of the equation: no source term, no direct
\* call of an evaluator, no call of a cs_source_term_def_by_* function; the
\* array of the source terms is allocated, no block has been released and no
\* word has been written outside its block; no worker has started
Init ==
  /\ NDEBUG \in BOOLEAN
  /\ eq_terms = <<>>
  /\ eq_status = "setup"
  /\ eq_scheme = NULL
  /\ eq_compute = NoHandles
  /\ eq_sys_flag = {}
  /\ eq_mask = NoArray
  /\ eq_csys = [n_dofs |-> 0, source |-> Garbage]
  /\ eq_c_id = -1
  /\ eq_calls = <<>>
  /\ eval_call = [h |-> NULL, done |-> FALSE]
  /\ def_call = [fn |-> NULL]
  /\ heap = [source_terms |-> "source_terms", freed |-> <<>>, destroyed |-> 0, oob |-> {}]
  /\ par = [started |-> FALSE]

\* cs_source_term_def_by_value on the next free structure of the registry
DefValue ==
  /\ eq_status = "setup"
  /\ eq_n_terms < MaxTerms
  /\ \E ml_id \in 0..2, flag \in FlagInputs, val \in {R(3)} :
       eq_terms' = Append(eq_terms,
                          DefByValue(eq_n_terms, NULL, "CS_PARAM_VAR_SCAL", ml_id, flag, val))
  /\ UNCHANGED <<NDEBUG, eq_status, eq_scheme, eq_compute, eq_sys_flag, eq_mask,
                 eq_csys, eq_c_id, eq_calls, eval_call, def_call, heap, par>>

DefAnalytic ==
  /\ eq_status = "setup"
  /\ eq_n_terms < MaxTerms
  /\ \E ml_id \in 0..2, flag \in FlagInputs, func \in {"f_affine"} :
       eq_terms' = Append(eq_terms,
                          DefByAnalytic(eq_n_terms, NULL, "CS_PARAM_VAR_SCAL", ml_id, flag,
                                        func))
  /\ UNCHANGED <<NDEBUG, eq_status, eq_scheme, eq_compute, eq_sys_flag, eq_mask,
                 eq_csys, eq_c_id, eq_calls, eval_call, def_call, heap, par>>

DefArray ==
  /\ eq_status = "setup"
  /\ eq_n_terms < MaxTerms
  /\ \E ml_id \in 0..2, flag \in FlagInputs :
       eq_terms' = Append(eq_terms,
                          DefByArray(eq_n_terms, NULL, "CS_PARAM_VAR_SCAL", ml_id, flag,
                                     [location |-> {CS_FLAG_PRIMAL, CS_FLAG_VERTEX},
                                      state |-> {}],
                                     "array"))
  /\ UNCHANGED <<NDEBUG, eq_status, eq_scheme, eq_compute, eq_sys_flag, eq_mask,
                 eq_csys, eq_c_id, eq_calls, eval_call, def_call, heap, par>>

\* cs_source_term_set_quadrature on the term defined last; the callers set the
\* quadrature of the densities defined by an analytic function, the only terms
\* whose quad_type is read
SetQuadrature ==
  /\ eq_status = "setup"
  /\ eq_n_terms > 0
  /\ eq_terms[eq_n_terms].def_type = "CS_PARAM_DEF_BY_ANALYTIC_FUNCTION"
  /\ CS_FLAG_DUAL \in eq_terms[eq_n_terms].flag
  /\ \E quad_type \in {"CS_QUADRATURE_BARY", "CS_QUADRATURE_BARY_SUBDIV",
                        "CS_QUADRATURE_HIGHER", "CS_QUADRATURE_HIGHEST",
                        "CS_QUADRATURE_NONE"} :
       eq_terms' = [eq_terms EXCEPT ![eq_n_terms] =
                      cs_source_term_set_quadrature(@, quad_type)]
  /\ UNCHANGED <<NDEBUG, eq_status, eq_scheme, eq_compute, eq_sys_flag, eq_mask,
                 eq_csys, eq_c_id, eq_calls, eval_call, def_call, heap, par>>

\* cs_source_term_init for the equation, whose system flag says or not that it
\* has source terms.  What a write outside the block of the mask does is not
\* defined: the program goes on with the words written (end "ok") or is stopped
\* by the system (end "sigsegv")
SourceTermInit ==
  /\ eq_status = "setup"
  /\ heap.source_terms # NULL
  /\ \E scheme \in {"CS_SPACE_SCHEME_CDOVB", "CS_SPACE_SCHEME_CDOVCB",
                     "CS_SPACE_SCHEME_CDOFB"},
        flag \in {{}, {CS_FLAG_SYS_SOURCETERM}} :
       \E r \in {cs_source_term_init(scheme, eq_n_terms, eq_terms, eq_compute, flag,
                                     eq_mask, NDEBUG)} :
         \E end \in (IF r.oob = {} THEN {r.status} ELSE {r.status, "sigsegv"}) :
           /\ eq_scheme' = scheme
           /\ eq_status' = (IF end = "ok" THEN "initialized" ELSE end)
           /\ eq_compute' = r.compute_source
           /\ eq_sys_flag' = r.sys_flag
           /\ eq_mask' = r.source_mask
           /\ heap' = [heap EXCEPT !.oob = @ \cup r.oob]
  /\ UNCHANGED <<NDEBUG, eq_terms, eq_csys, eq_c_id, eq_calls, eval_call, def_call, par>>

\* the assembly of the next cell: the caller sets csys->n_dofs, has computed the
\* Hodge operator of the cell, and calls cs_source_term_compute_cellwise
ComputeCellwise ==
  /\ eq_status = "initialized"
  /\ eq_c_id + 1 < n_cells
  /\ \E cm \in {MeshCells[eq_c_id + 1]} :
       \E n_dofs \in {NDofs(eq_scheme, cm)} :
         \E r \in {cs_source_term_compute_cellwise(eq_n_terms, eq_terms, cm, eq_sys_flag,
                                                    eq_mask, eq_compute,
                                                    CellBuilder(cm, n_dofs),
                                                    [n_dofs |-> n_dofs,
                                                     source |-> eq_csys.source])} :
           /\ eq_csys' = [n_dofs |-> n_dofs, source |-> r.source]
           /\ eq_calls' = r.calls
           /\ eq_c_id' = cm.c_id
           /\ eq_status' = (IF r.status = "ok" THEN eq_status ELSE r.status)
  /\ UNCHANGED <<NDEBUG, eq_terms, eq_scheme, eq_compute, eq_sys_flag, eq_mask, eval_call,
                 def_call, heap, par>>

Next ==
  \/ DefValue
  \/ DefAnalytic
  \/ DefArray
  \/ SetQuadrature
  \/ SourceTermInit
  \/ ComputeCellwise

Spec == Init /\ [][Next]_vars

(***************************************************************************)
(* Direct calls of the evaluators, on any contents of the caller's buffer  *)
(***************************************************************************)
ValueHandles == {"cs_source_term_pvsp_by_value", "cs_source_term_dcsd_by_value",
                 "cs_source_term_vcsp_by_value"}

AnalyticHandles == {"cs_source_term_pvsp_by_analytic", "cs_source_term_dcsd_bary_by_analytic",
                    "cs_source_term_dcsd_q1o1_by_analytic",
                    "cs_source_term_dcsd_q10o2_by_analytic",
                    "cs_source_term_dcsd_q5o3_by_analytic",
                    "cs_source_term_vcsp_by_analytic"}

\* degrees of freedom of a cell for an evaluator: the vertices, and the cell
\* for the vertex+cell evaluators
EvalNDofs(h, cm) ==
  IF h \in {"cs_source_term_vcsp_by_value", "cs_source_term_vcsp_by_analytic"}
  THEN cm.n_vc + 1
  ELSE cm.n_vc

EvalSources(h) ==
  IF h \in ValueHandles
  THEN {DefByValue(0, NULL, "CS_PARAM_VAR_SCAL", 0, {}, val) : val \in {R(3), Q(-1, 2)}}
  ELSE {DefByAnalytic(0, NULL, "CS_PARAM_VAR_SCAL", 0, {}, func) : func \in AnalyticFuncs}

EvalInit ==
  /\ NDEBUG \in BOOLEAN
  /\ eq_terms = <<>>
  /\ eq_status = "setup"
  /\ eq_scheme = NULL
  /\ eq_compute = NoHandles
  /\ eq_sys_flag = {}
  /\ eq_mask = NoArray
  /\ eq_csys = [n_dofs |-> 0, source |-> Garbage]
  /\ eq_c_id = -1
  /\ eq_calls = <<>>
  /\ \E h \in ValueHandles \cup AnalyticHandles, c \in DOMAIN GeomCells,
        prior \in {ZeroBuffer, Garbage} :
       \E source \in EvalSources(h) :
         eval_call = [h |-> h, source |-> source, c |-> c, prior |-> prior,
                      values |-> prior, done |-> FALSE]
  /\ def_call = [fn |-> NULL]
  /\ heap = [source_terms |-> "source_terms", freed |-> <<>>, destroyed |-> 0, oob |-> {}]
  /\ par = [started |-> FALSE]

\* the call h(source, cm, cb, values) on the buffer values = prior
EvalCall ==
  /\ ~eval_call.done
  /\ eval_call.h # NULL
  /\ LET cm == GeomCells[eval_call.c]
         cb == CellBuilder(cm, EvalNDofs(eval_call.h, cm))
     IN  eval_call' = [eval_call EXCEPT
                         !.values = Invoke(eval_call.h, eval_call.source, cm, cb,
                                           eval_call.prior),
                         !.done = TRUE]
  /\ UNCHANGED <<NDEBUG, eq_terms, eq_status, eq_scheme, eq_compute, eq_sys_flag, eq_mask,
                 eq_csys, eq_c_id, eq_calls, def_call, heap, par>>

EvalNext == EvalCall

SpecEval == EvalInit /\ [][EvalNext]_vars

(***************************************************************************)
(* Terms on lists of cells that the mesh may not have: a list of a mesh    *)
(* location is used by _set_mask as the caller built it                    *)
(***************************************************************************)
\* cs_source_term_def_by_value on the next free structure, on the whole mesh,
\* on a list of cells of the mesh, or on a list with the index n_cells
MaskDefValue ==
  /\ eq_status = "setup"
  /\ eq_n_terms < MaxTerms
  /\ \E ml_id \in {0, 1, 2, 4}, flag \in FlagInputs \ {{}} :
       eq_terms' = Append(eq_terms,
                          DefByValue(eq_n_terms, NULL, "CS_PARAM_VAR_SCAL", ml_id, flag, R(3)))
  /\ UNCHANGED <<NDEBUG, eq_status, eq_scheme, eq_compute, eq_sys_flag, eq_mask,
                 eq_csys, eq_c_id, eq_calls, eval_call, def_call, heap, par>>

MaskNext ==
  \/ MaskDefValue
  \/ SourceTermInit

SpecMask == Init /\ [][MaskNext]_vars

(***************************************************************************)
(* The assembly with more terms than cs_source_term_init has seen: the     *)
(* caller gives n_source_terms and the arrays to each function             *)
(***************************************************************************)
\* cs_source_term_def_by_value on the next free structure after
\* cs_source_term_init and before the assembly: the caller then gives the new
\* number of terms to cs_source_term_compute_cellwise
DefLate ==
  /\ eq_status = "initialized"
  /\ eq_c_id = -1
  /\ eq_n_terms < MaxTerms
  /\ eq_terms' = Append(eq_terms,
                        DefByValue(eq_n_terms, NULL, "CS_PARAM_VAR_SCAL", 0,
                                   {CS_FLAG_DUAL, CS_FLAG_CELL}, R(3)))
  /\ UNCHANGED <<NDEBUG, eq_status, eq_scheme, eq_compute, eq_sys_flag, eq_mask,
                 eq_csys, eq_c_id, eq_calls, eval_call, def_call, heap, par>>

LateNext ==
  \/ Next
  \/ DefLate

SpecLate == Init /\ [][LateNext]_vars

(***************************************************************************)
(* The assembly of the cells by workers that run at the same time, one     *)
(* cell, one cell builder and one cellwise system per worker               *)
(***************************************************************************)
\* every worker gives the cellwise system of the first worker
WorkerBufferShared(w) == 0

\* the cellwise system that worker w gives to cs_source_term_compute_cellwise:
\* its own
WorkerBuffer(w) == w

\* the workers start after cs_source_term_init: each has its cell and its
\* buffer, which holds numbers left there; the registry, the mask and the
\* dispatch table are those of the equation
ParStart ==
  /\ eq_status = "initialized"
  /\ eq_c_id = -1
  /\ ~par.started
  /\ par' = [started |-> TRUE,
             shared |-> <<eq_terms, eq_mask, eq_compute>>,
             pc |-> [w \in CellIds |-> "reset"],
             s |-> [w \in CellIds |-> [st_id |-> 0, status |-> "ok", calls |-> <<>>]],
             source |-> [b \in CellIds |-> Garbage]]
  /\ UNCHANGED <<NDEBUG, eq_terms, eq_status, eq_scheme, eq_compute, eq_sys_flag, eq_mask,
                 eq_csys, eq_c_id, eq_calls, eval_call, def_call, heap>>

\* one step of cs_source_term_compute_cellwise by worker w on its cell: the
\* reset of csys->source with the test of the system flag, then one iteration
\* of the loop on the source terms at each step
ParStep(w) ==
  /\ par.started
  /\ par.pc[w] \in {"reset", "loop"}
  /\ \E cm \in {MeshCells[w]}, b \in {WorkerBuffer(w)} :
       \E n_dofs \in {NDofs(eq_scheme, cm)} :
         \E r \in {IF par.pc[w] = "reset"
                   THEN cs_source_term_compute_cellwise(
                          0, eq_terms, cm, eq_sys_flag, eq_mask, eq_compute,
                          CellBuilder(cm, n_dofs),
                          [n_dofs |-> n_dofs, source |-> par.source[b]])
                   ELSE ComputeLoop(par.s[w].st_id + 1, eq_terms, cm, eq_mask, eq_compute,
                                    CellBuilder(cm, n_dofs),
                                    [st_id |-> par.s[w].st_id, status |-> "ok",
                                     source |-> par.source[b],
                                     calls |-> par.s[w].calls])} :
           par' = [par EXCEPT
                     !.source[b] = r.source,
                     !.s[w] = [st_id |-> r.st_id, status |-> r.status, calls |-> r.calls],
                     !.pc[w] = IF \/ r.status # "ok"
                                  \/ r.st_id >= eq_n_terms
                                  \/ CS_FLAG_SYS_SOURCETERM \notin eq_sys_flag
                               THEN "done"
                               ELSE "loop"]
  /\ UNCHANGED <<NDEBUG, eq_terms, eq_status, eq_scheme, eq_compute, eq_sys_flag, eq_mask,
                 eq_csys, eq_c_id, eq_calls, eval_call, def_call, heap>>

ParNext ==
  \/ DefValue
  \/ DefAnalytic
  \/ DefArray
  \/ SetQuadrature
  \/ SourceTermInit
  \/ ParStart
  \/ \E w \in CellIds : ParStep(w)

SpecPar == Init /\ [][ParNext]_vars

(***************************************************************************)
(* The registry on its own: cs_source_term_def_by_* with any arguments,    *)
(* and cs_source_term_destroy                                              *)
(***************************************************************************)
\* the blocks released by the loop on the source terms, from term s.st_id on,
\* in the order of the calls to BFT_FREE: "name_" and the index of a structure
\* is the block allocated by _get_name for its name
RECURSIVE DestroyLoop(_, _, _)
DestroyLoop(n_source_terms, terms, s) ==
  IF s.st_id >= n_source_terms THEN s.freed
  ELSE LET st == terms[s.st_id + 1]
       IN  DestroyLoop(n_source_terms, terms,
             [st_id |-> s.st_id + 1,
              freed |-> s.freed
                        \o (IF st.name # NULL THEN <<"name_" \o ToString(s.st_id)>> ELSE <<>>)
                        \o (IF CS_FLAG_STATE_OWNER \in st.array_desc.state /\ st.array # NULL
                            THEN <<st.array>>
                            ELSE <<>>)])

\* cs_source_term_destroy without the test of a NULL array of source terms
cs_source_term_destroy_unguarded(n_source_terms, source_terms, terms) ==
  [ret |-> NULL,
   freed |-> DestroyLoop(n_source_terms, terms, [st_id |-> 0, freed |-> <<>>])
             \o <<"source_terms">>]

\* cs_source_term_destroy(n_source_terms, source_terms), terms being what the
\* structures of the array hold: the pointer returned and the blocks released
cs_source_term_destroy(n_source_terms, source_terms, terms) ==
  IF source_terms = NULL THEN [ret |-> source_terms, freed |-> <<>>]
  ELSE [ret |-> NULL,
        freed |-> DestroyLoop(n_source_terms, terms, [st_id |-> 0, freed |-> <<>>])
                  \o <<source_terms>>]

\* largest number of structures of the array
MaxRegTerms == 2

\* largest number of calls of cs_source_term_destroy
MaxDestroys == 2

\* the arguments of a cs_source_term_def_by_* call for the structure n of the
\* array: the structure or no structure; its index or an index beyond the
\* maximum as id; no name or a name; scalar, vector, or a value kind that the
\* switch on var_type lacks; the whole mesh, a list of cells or a list of
\* vertices; the flag of a density on dual cells
RegInputs(n) ==
  [st : {n, NoTerm}, st_id : {n, CS_N_MAX_SOURCE_TERMS}, name : {NULL, "momentum_st"},
   var_type : {"CS_PARAM_VAR_SCAL", "CS_PARAM_VAR_VECT", "CS_PARAM_VAR_SYMTENS"},
   ml_id : {0, 1, 3}, flag : {{CS_FLAG_DUAL, CS_FLAG_CELL}}]

\* a descriptor and an array for the structure st_id ("array_" and the index
\* of the structure): no array, an array that the caller keeps, and an array
\* that the structure owns
RegArrays(st_id) ==
  [location : {{CS_FLAG_PRIMAL, CS_FLAG_VERTEX}}, state : {{CS_FLAG_STATE_OWNER}},
   array : {NULL, "array_" \o ToString(st_id)}]
  \cup [location : {{CS_FLAG_PRIMAL, CS_FLAG_VERTEX}}, state : {{}},
        array : {"array_" \o ToString(st_id)}]

\* the state after the call fn(st, st_id, name, var_type, ml_id, flag, ...) of a
\* cs_source_term_def_by_* function that ended as r says
Defined(fn, st, st_id, name, var_type, ml_id, flag, desc, array, r) ==
  /\ def_call' = [fn |-> fn, st |-> st, st_id |-> st_id, name |-> name,
                  var_type |-> var_type, ml_id |-> ml_id, flag |-> flag,
                  desc |-> desc, array |-> array, status |-> r.status]
  /\ eq_status' = (IF r.status = "ok" THEN eq_status ELSE r.status)
  /\ eq_terms' = (IF r.status = "ok" THEN Append(eq_terms, r.st) ELSE eq_terms)
  /\ UNCHANGED <<NDEBUG, eq_scheme, eq_compute, eq_sys_flag, eq_mask, eq_csys, eq_c_id,
                 eq_calls, eval_call, heap, par>>

\* the next structure of the array, or no structure, is defined by value
RegDefValue ==
  /\ eq_status = "setup"
  /\ heap.source_terms # NULL
  /\ eq_n_terms < MaxRegTerms
  /\ \E a \in RegInputs(eq_n_terms) :
       Defined("cs_source_term_def_by_value", a.st, a.st_id, a.name, a.var_type, a.ml_id,
               a.flag, [location |-> {}, state |-> {}], NULL,
               cs_source_term_def_by_value(a.st, a.st_id, a.name, a.var_type, a.ml_id,
                                           a.flag, R(3), NDEBUG))

RegDefAnalytic ==
  /\ eq_status = "setup"
  /\ heap.source_terms # NULL
  /\ eq_n_terms < MaxRegTerms
  /\ \E a \in RegInputs(eq_n_terms) :
       Defined("cs_source_term_def_by_analytic", a.st, a.st_id, a.name, a.var_type,
               a.ml_id, a.flag, [location |-> {}, state |-> {}], NULL,
               cs_source_term_def_by_analytic(a.st, a.st_id, a.name, a.var_type, a.ml_id,
                                              a.flag, "f_affine", NDEBUG))

RegDefArray ==
  /\ eq_status = "setup"
  /\ heap.source_terms # NULL
  /\ eq_n_terms < MaxRegTerms
  /\ \E a \in RegInputs(eq_n_terms), desc \in RegArrays(eq_n_terms) :
       Defined("cs_source_term_def_by_array", a.st, a.st_id, a.name, a.var_type, a.ml_id,
               a.flag, [location |-> desc.location, state |-> desc.state], desc.array,
               cs_source_term_def_by_array(a.st, a.st_id, a.name, a.var_type, a.ml_id,
                                           a.flag, desc, desc.array, NDEBUG))

\* source_terms = cs_source_term_destroy(n_source_terms, source_terms)
RegDestroy ==
  /\ eq_status = "setup"
  /\ heap.destroyed < MaxDestroys
  /\ \E r \in {cs_source_term_destroy(eq_n_terms, heap.source_terms, eq_terms)} :
       heap' = [heap EXCEPT !.source_terms = r.ret,
                            !.freed = @ \o r.freed,
                            !.destroyed = @ + 1]
  /\ UNCHANGED <<NDEBUG, eq_terms, eq_status, eq_scheme, eq_compute, eq_sys_flag, eq_mask,
                 eq_csys, eq_c_id, eq_calls, eval_call, def_call, par>>

RegNext ==
  \/ RegDefValue
  \/ RegDefAnalytic
  \/ RegDefArray
  \/ RegDestroy

SpecReg == Init /\ [][RegNext]_vars

(***************************************************************************)
(* The settings of the terms of the registry: definitions, also of a       *)
(* structure defined before, cs_source_term_set_quadrature and             *)
(* cs_source_term_set_reduction                                            *)
(***************************************************************************)
\* the state after the call fn on the structure st with the argument arg, r
\* being how the call ends and the structure after it: def_call keeps the
\* call, the structure before a call that modifies it, for each structure the
\* quadrature given by the cs_source_term_set_quadrature calls since its last
\* definition (NULL when there is none) and, when the call before was a
\* cs_source_term_set_reduction that returned on the same structure, its
\* argument and the flag of the structure before it (prev; empty otherwise)
TermCalled(fn, st, arg, r, quad) ==
  /\ def_call' = [fn |-> fn, st |-> st, arg |-> arg, status |-> r.status,
                  before |-> IF /\ st \in 0..(eq_n_terms - 1)
                                /\ fn \in {"cs_source_term_set_quadrature",
                                           "cs_source_term_set_reduction"}
                             THEN eq_terms[st + 1]
                             ELSE NULL,
                  quad |-> quad,
                  prev |-> IF /\ def_call.fn = "cs_source_term_set_reduction"
                              /\ fn = "cs_source_term_set_reduction"
                              /\ def_call.st = st
                              /\ def_call.status = "ok"
                           THEN [arg |-> def_call.arg, flag |-> def_call.before.flag]
                           ELSE [arg |-> {}, flag |-> {}]]
  /\ eq_status' = (IF r.status = "ok" THEN eq_status ELSE r.status)
  /\ eq_terms' = (IF r.status # "ok" THEN eq_terms
                  ELSE IF st = eq_n_terms THEN Append(eq_terms, r.st)
                  ELSE [eq_terms EXCEPT ![st + 1] = r.st])
  /\ UNCHANGED <<NDEBUG, eq_scheme, eq_compute, eq_sys_flag, eq_mask, eq_csys, eq_c_id,
                 eq_calls, eval_call, heap, par>>

\* a cs_source_term_def_by_* call on the next free structure of the array or
\* on a structure defined before: by value or by array on the whole mesh, by
\* analytic function on a list of cells
TermDefine ==
  /\ eq_status = "setup"
  /\ \E st \in 0..eq_n_terms,
        fn \in {"cs_source_term_def_by_value", "cs_source_term_def_by_analytic",
                "cs_source_term_def_by_array"},
        flag \in {{CS_FLAG_DUAL, CS_FLAG_CELL}, {CS_FLAG_PRIMAL},
                  {CS_FLAG_PRIMAL, CS_FLAG_VERTEX, "CS_FLAG_BORDER"}} :
       /\ st < MaxRegTerms
       /\ TermCalled(fn, st, flag,
            CASE fn = "cs_source_term_def_by_value" ->
                   cs_source_term_def_by_value(st, st, NULL, "CS_PARAM_VAR_SCAL", 0, flag,
                                               R(3), NDEBUG)
              [] fn = "cs_source_term_def_by_analytic" ->
                   cs_source_term_def_by_analytic(st, st, NULL, "CS_PARAM_VAR_SCAL", 1,
                                                  flag, "f_affine", NDEBUG)
              [] fn = "cs_source_term_def_by_array" ->
                   cs_source_term_def_by_array(st, st, NULL, "CS_PARAM_VAR_SCAL", 0, flag,
                                               [location |-> {CS_FLAG_PRIMAL, CS_FLAG_VERTEX},
                                                state |-> {}],
                                               "array", NDEBUG),
            [i \in 1..(IF st = eq_n_terms THEN st + 1 ELSE eq_n_terms) |->
               IF i = st + 1 THEN NULL ELSE def_call.quad[i]])

\* cs_source_term_set_quadrature on a structure defined before, or on no
\* structure
TermSetQuadrature ==
  /\ eq_status = "setup"
  /\ def_call.fn # NULL
  /\ \E st \in (0..(eq_n_terms - 1)) \cup {NoTerm},
        quad_type \in {"CS_QUADRATURE_BARY", "CS_QUADRATURE_HIGHEST"} :
       TermCalled("cs_source_term_set_quadrature", st, quad_type,
                  IF st = NoTerm THEN [status |-> "bft_error"]
                  ELSE [status |-> "ok",
                        st |-> cs_source_term_set_quadrature(eq_terms[st + 1], quad_type)],
                  [i \in 1..eq_n_terms |-> IF i = st + 1 THEN quad_type ELSE def_call.quad[i]])

\* cs_source_term_set_reduction on a structure defined before, or on no
\* structure
TermSetReduction ==
  /\ eq_status = "setup"
  /\ def_call.fn # NULL
  /\ \E st \in (0..(eq_n_terms - 1)) \cup {NoTerm},
        flag \in {{CS_FLAG_DUAL}, {CS_FLAG_PRIMAL}, {CS_FLAG_CELL}} :
       TermCalled("cs_source_term_set_reduction", st, flag,
                  IF st = NoTerm THEN [status |-> "bft_error"]
                  ELSE cs_source_term_set_reduction(eq_terms[st + 1], flag, NDEBUG),
                  def_call.quad)

TermNext ==
  \/ TermDefine
  \/ TermSetQuadrature
  \/ TermSetReduction

SpecTerm == Init /\ [][TermNext]_vars

(***************************************************************************)
(* Builds of the dispatch table and of the mask on a registry that changes *)
(* between two calls of cs_source_term_init                                 *)
(***************************************************************************)
\* largest number of structures of the array given to cs_source_term_init
MaxBuildTerms == 9

\* a cs_source_term_def_by_* call on the next free structure of the array or
\* on a structure defined before, also after a build: a density by value on
\* the whole mesh, a potential by value on a list of cells, or a density by
\* array on another list of cells; the structures after the first MaxTerms
\* are densities on the whole mesh, and the array grows before the first
\* build only
BuildDefine ==
  /\ eq_status \in {"setup", "initialized"}
  /\ \E st \in 0..eq_n_terms, kind \in {"density", "potential", "array"} :
       /\ st < MaxBuildTerms
       /\ st >= MaxTerms => kind = "density"
       /\ eq_status = "initialized" => st < eq_n_terms
       /\ \E t \in {CASE kind = "density" ->
                          DefByValue(st, NULL, "CS_PARAM_VAR_SCAL", 0,
                                     {CS_FLAG_DUAL, CS_FLAG_CELL}, R(3))
                      [] kind = "potential" ->
                          DefByValue(st, NULL, "CS_PARAM_VAR_SCAL", 1,
                                     {CS_FLAG_PRIMAL, CS_FLAG_VERTEX}, R(3))
                      [] kind = "array" ->
                          DefByArray(st, NULL, "CS_PARAM_VAR_SCAL", 2,
                                     {CS_FLAG_DUAL, CS_FLAG_CELL},
                                     [location |-> {CS_FLAG_PRIMAL, CS_FLAG_VERTEX},
                                      state |-> {}],
                                     "array")} :
            eq_terms' = (IF st = eq_n_terms THEN Append(eq_terms, t)
                         ELSE [eq_terms EXCEPT ![st + 1] = t])
  /\ UNCHANGED <<NDEBUG, eq_status, eq_scheme, eq_compute, eq_sys_flag, eq_mask,
                 eq_csys, eq_c_id, eq_calls, eval_call, def_call, heap, par>>

\* BuildInit in which cs_source_term_init does not begin by setting the table
\* and the mask to NULL: an entry it does not assign keeps its function, and
\* the words of a mask it is given keep their bits
BuildInitWithoutReset ==
  /\ eq_status \in {"setup", "initialized"}
  /\ \E scheme \in {"CS_SPACE_SCHEME_CDOVB", "CS_SPACE_SCHEME_CDOVCB"},
        n_source_terms \in {0, eq_n_terms - 1, eq_n_terms} \cap Nat,
        flag \in {eq_sys_flag, eq_sys_flag \cup {CS_FLAG_SYS_SOURCETERM}} :
       \E r \in {cs_source_term_init(scheme, n_source_terms, eq_terms, eq_compute, flag,
                                     eq_mask, NDEBUG)} :
         /\ def_call' = [fn |-> "cs_source_term_init", space_scheme |-> scheme,
                         n_source_terms |-> n_source_terms,
                         source_terms |-> SubSeq(eq_terms, 1, n_source_terms),
                         compute_source |-> eq_compute, sys_flag |-> flag,
                         source_mask |-> eq_mask, status |-> r.status]
         /\ eq_scheme' = scheme
         /\ eq_status' = (IF r.status = "ok" THEN "initialized" ELSE r.status)
         /\ eq_compute' = [i \in DOMAIN eq_compute |->
                             IF r.compute_source[i] = NULL THEN eq_compute[i]
                             ELSE r.compute_source[i]]
         /\ eq_sys_flag' = r.sys_flag
         /\ eq_mask' = (IF r.source_mask = NoArray THEN eq_mask
                        ELSE IF eq_mask = NoArray THEN r.source_mask
                        ELSE [c \in DOMAIN eq_mask |-> BitOr(eq_mask[c], r.source_mask[c])])
  /\ UNCHANGED <<NDEBUG, eq_terms, eq_csys, eq_c_id, eq_calls, eval_call, heap, par>>

\* cs_source_term_init(space_scheme, n_source_terms, source_terms,
\* compute_source, &sys_flag, &source_mask) on the array of the equation, the
\* caller giving the number of its structures to use, the table and the mask
\* left by the build before, and its system flag with or without the bit of
\* the source terms; def_call keeps the arguments of the call
BuildInit ==
  /\ eq_status \in {"setup", "initialized"}
  /\ \E scheme \in {"CS_SPACE_SCHEME_CDOVB", "CS_SPACE_SCHEME_CDOVCB"},
        n_source_terms \in {0, eq_n_terms - 1, eq_n_terms} \cap Nat,
        flag \in {eq_sys_flag, eq_sys_flag \cup {CS_FLAG_SYS_SOURCETERM}} :
       \E r \in {cs_source_term_init(scheme, n_source_terms, eq_terms, eq_compute, flag,
                                     eq_mask, NDEBUG)} :
         /\ def_call' = [fn |-> "cs_source_term_init", space_scheme |-> scheme,
                         n_source_terms |-> n_source_terms,
                         source_terms |-> SubSeq(eq_terms, 1, n_source_terms),
                         compute_source |-> eq_compute, sys_flag |-> flag,
                         source_mask |-> eq_mask, status |-> r.status]
         /\ eq_scheme' = scheme
         /\ eq_status' = (IF r.status = "ok" THEN "initialized" ELSE r.status)
         /\ eq_compute' = r.compute_source
         /\ eq_sys_flag' = r.sys_flag
         /\ eq_mask' = r.source_mask
  /\ UNCHANGED <<NDEBUG, eq_terms, eq_csys, eq_c_id, eq_calls, eval_call, heap, par>>

BuildNext ==
  \/ BuildDefine
  \/ BuildInit

SpecBuild == Init /\ [][BuildNext]_vars

(***************************************************************************)
(* Direct calls of the evaluators of a potential, with or without a source *)
(* term and with or without a Hodge operator in the cell builder           *)
(***************************************************************************)
\* the first statements of the four evaluators of a potential, source being
\* the pointer to the source term and cb->hdg the null pointer (NoArray) or
\* the Hodge operator of the cell: "return" when source is NULL, "assert"
\* when the assertion on cb->hdg fails (builds without NDEBUG only),
\* "undefined" when cs_locmat_matvec is called with a null operator, and
\* "compute" otherwise
PotentialEntry(source, cb, ndebug) ==
  IF source = NoTerm THEN "return"
  ELSE IF cb.hdg = NoArray THEN (IF ndebug THEN "undefined" ELSE "assert")
  ELSE "compute"

\* a call of an evaluator of a potential to come: with a source term or NULL,
\* on a cell of the mesh, the cell builder holding the Hodge operator of the
\* cell or none, the caller's buffer being zero
HodgeInit ==
  /\ NDEBUG \in BOOLEAN
  /\ eq_terms = <<>>
  /\ eq_status = "setup"
  /\ eq_scheme = NULL
  /\ eq_compute = NoHandles
  /\ eq_sys_flag = {}
  /\ eq_mask = NoArray
  /\ eq_csys = [n_dofs |-> 0, source |-> Garbage]
  /\ eq_c_id = -1
  /\ eq_calls = <<>>
  /\ \E h \in {"cs_source_term_pvsp_by_value", "cs_source_term_pvsp_by_analytic",
               "cs_source_term_vcsp_by_value", "cs_source_term_vcsp_by_analytic"},
        c \in DOMAIN MeshCells, st \in {0, NoTerm}, hdg \in BOOLEAN :
       \E source \in EvalSources(h) :
         eval_call = [h |-> h, st |-> st, source |-> source, c |-> c, hdg |-> hdg,
                      prior |-> ZeroBuffer, values |-> ZeroBuffer, status |-> "called",
                      done |-> FALSE]
  /\ def_call = [fn |-> NULL]
  /\ heap = [source_terms |-> "source_terms", freed |-> <<>>, destroyed |-> 0, oob |-> {}]
  /\ par = [started |-> FALSE]

\* the call h(source, cm, cb, values).  What the call of cs_locmat_matvec
\* with a null operator does is not defined: the program is stopped by the
\* system (end "sigsegv") or goes on and returns, the buffer as it was or
\* holding numbers read from anywhere
HodgeCall ==
  /\ ~eval_call.done
  /\ eval_call.h # NULL
  /\ LET cm == MeshCells[eval_call.c]
         cb == IF eval_call.hdg THEN CellBuilder(cm, EvalNDofs(eval_call.h, cm))
               ELSE [hdg |-> NoArray]
         entry == PotentialEntry(eval_call.st, cb, NDEBUG)
     IN  \E end \in (CASE entry = "return" -> {[status |-> "ok", values |-> eval_call.prior]}
                       [] entry = "assert" ->
                            {[status |-> "assert", values |-> eval_call.prior]}
                       [] entry = "undefined" ->
                            {[status |-> "sigsegv", values |-> eval_call.prior],
                             [status |-> "ok", values |-> eval_call.prior],
                             [status |-> "ok", values |-> Garbage]}
                       [] entry = "compute" ->
                            {[status |-> "ok",
                              values |-> Invoke(eval_call.h, eval_call.source, cm, cb,
                                                eval_call.prior)]}) :
           eval_call' = [eval_call EXCEPT !.values = end.values, !.status = end.status,
                                          !.done = TRUE]
  /\ UNCHANGED <<NDEBUG, eq_terms, eq_status, eq_scheme, eq_compute, eq_sys_flag, eq_mask,
                 eq_csys, eq_c_id, eq_calls, def_call, heap, par>>

SpecHodge == HodgeInit /\ [][HodgeCall]_vars

(***************************************************************************)
(* Wall temperature computed by cs_rad_transfer_wall_flux from the flux    *)
(* balance of every boundary face                                          *)
(***************************************************************************)
\* the types of a boundary face held by cs_glob_rad_transfer_params, and
\* "none" for a face of any other type
WallTypes == {"itpimp", "ipgrno", "iprefl", "ifgrno", "ifrefl", "none"}

\* a < b on doubles: false as soon as one of them is not a number
RLess(a, b) == RPos(RSub(b, a))

\* the data of one boundary face: its type isothp, its wall temperature
\* tparop before the call, the exchange coefficient hfconp of the fluid and
\* the imposed flux rcodcl[ifac + ircodcl]; the wall is 1 m thick with a
\* conductivity of 1 W/m/K, the exterior is at 300 K, the interior at 320 K,
\* the fluid cell at 330 K, and there is no convective flux.  The
\* emissivity epsp is 0, for which the products of epp with the terms in
\* stephn = 5.6703e-8, finite for a finite wall temperature, are 0
WallFace(isothp, tparop, hfconp, rcodcl) ==
  [isothp |-> isothp, tparop |-> R(tparop), hfconp |-> R(hfconp), rcodcl |-> R(rcodcl),
   tintp |-> R(320), textp |-> R(300), epap |-> R(1), xlamp |-> R(1),
   flconp |-> Zero, tempkp |-> R(330)]

\* the faces of the model.  A face with an imposed flux and reflecting has a
\* positive exchange coefficient, for which CS_MAX(hfconp, cs_math_epzero)
\* is hfconp
WallFaces ==
  {f \in {WallFace(t, tp, h, rc) : t \in WallTypes, tp \in {0, 250, 290, 400},
                                   h \in {0, 1}, rc \in {0, 400}} :
     f.isothp = "ifrefl" => RPos(f.hfconp)}

\* detep of a face f of type ipgrno, iprefl or ifgrno, qrayt and
\* 4 * esl * epp * sigt3 being 0 for the emissivity of f
WallDetep(f) ==
  LET esl == RDiv(f.epap, f.xlamp)
      qconv == f.flconp
  IN  IF f.isothp = "ifgrno" THEN RDiv(RSub(qconv, f.rcodcl), f.hfconp)
      ELSE RDiv(RSub(RMul(esl, qconv), RSub(f.tparop, f.textp)),
                RAdd(R(1), RMul(esl, f.hfconp)))

\* the relaxation of tparop by detep.  rapp = detep / tparop is infinite
\* when tparop is 0 and detep a number other than 0, and abrapp >= tx then
\* holds; it is not a number when both are 0, and abrapp >= tx is then
\* false.  rapp / abrapp of an infinite rapp is not a number
Relaxation(tparop, detep, tx) ==
  LET rapp == RDiv(detep, tparop)
      abrapp == RAbs(rapp)
  IN  IF abrapp = NonFinite
      THEN (IF detep = Zero THEN RAdd(tparop, detep) ELSE NonFinite)
      ELSE IF ~RLess(abrapp, tx)
           THEN RMul(tparop, RAdd(R(1), RDiv(RMul(tx, rapp), abrapp)))
           ELSE RAdd(tparop, detep)

\* if (t < *tmin) t = *tmin; if (t > *tmax) t = *tmax;
Clipping(t, tmin, tmax) ==
  LET low == IF RLess(t, tmin) THEN tmin ELSE t
  IN  IF RLess(tmax, low) THEN tmax ELSE low

\* the wall temperature of the face f after one pass of the loop on the
\* boundary faces
WallTemperature(f, tmin, tmax, tx) ==
  CASE f.isothp = "itpimp" -> f.tintp
    [] f.isothp \in {"ipgrno", "iprefl", "ifgrno"} ->
         Clipping(Relaxation(f.tparop, WallDetep(f), tx), tmin, tmax)
    [] f.isothp = "ifrefl" ->
         Clipping(RDiv(RSub(RMul(f.hfconp, f.tempkp), f.rcodcl), f.hfconp), tmin, tmax)
    [] OTHER -> f.tparop

\* tparop[] after cs_rad_transfer_wall_flux on the boundary faces b_faces
cs_rad_transfer_wall_flux(b_faces, tmin, tmax, tx) ==
  [ifac \in DOMAIN b_faces |-> WallTemperature(b_faces[ifac], tmin, tmax, tx)]

\* a call of cs_rad_transfer_wall_flux to come, on two boundary faces, with
\* tmin <= tmax and a relaxation coefficient of 1/10
WallInit ==
  /\ NDEBUG \in BOOLEAN
  /\ eq_terms = <<>>
  /\ eq_status = "setup"
  /\ eq_scheme = NULL
  /\ eq_compute = NoHandles
  /\ eq_sys_flag = {}
  /\ eq_mask = NoArray
  /\ eq_csys = [n_dofs |-> 0, source |-> Garbage]
  /\ eq_c_id = -1
  /\ eq_calls = <<>>
  /\ \E f0 \in WallFaces, f1 \in WallFaces,
        clip \in {<<0, 1000>>, <<280, 350>>, <<300, 300>>} :
       eval_call = [h |-> "cs_rad_transfer_wall_flux",
                    b_faces |-> [ifac \in 0..1 |-> IF ifac = 0 THEN f0 ELSE f1],
                    tmin |-> R(clip[1]), tmax |-> R(clip[2]), tx |-> Q(1, 10),
                    tparop |-> [ifac \in 0..1 |-> IF ifac = 0 THEN f0.tparop ELSE f1.tparop],
                    done |-> FALSE]
  /\ def_call = [fn |-> NULL]
  /\ heap = [source_terms |-> "source_terms", freed |-> <<>>, destroyed |-> 0, oob |-> {}]
  /\ par = [started |-> FALSE]

\* the call cs_rad_transfer_wall_flux(..., tmin, tmax, tx, ..., tparop, ...)
WallCall ==
  /\ ~eval_call.done
  /\ eval_call.h = "cs_rad_transfer_wall_flux"
  /\ eval_call' = [eval_call EXCEPT
                     !.tparop = cs_rad_transfer_wall_flux(eval_call.b_faces, eval_call.tmin,
                                                          eval_call.tmax, eval_call.tx),
                     !.done = TRUE]
  /\ UNCHANGED <<NDEBUG, eq_terms, eq_status, eq_scheme, eq_compute, eq_sys_flag, eq_mask,
                 eq_csys, eq_c_id, eq_calls, def_call, heap, par>>

SpecWall == WallInit /\ [][WallCall]_vars

(***************************************************************************)
(* Properties                                                              *)
(***************************************************************************)
\* what the evaluator h adds for the term source in the cell cm: the result
\* of the call on a zeroed buffer
Contribution(h, source, cm, n_dofs) ==
  Invoke(h, source, cm, CellBuilder(cm, n_dofs), ZeroBuffer)

\* C1: every evaluator adds its contribution to the caller's buffer and never
\* overwrites it: after the call on a buffer that held prior, values[v] is
\* prior[v] + contribution[v] for every degree of freedom v of the cell.
C1_EvaluatorsAdd ==
  eval_call.done =>
    LET cm == GeomCells[eval_call.c]
        n_dofs == EvalNDofs(eval_call.h, cm)
        contribution == Contribution(eval_call.h, eval_call.source, cm, n_dofs)
    IN  \A v \in 0..(n_dofs - 1) :
          eval_call.values[v] = RAdd(eval_call.prior[v], contribution[v])

\* the barycentric evaluator has been called on a buffer that held numbers
\* other than zero
C1_BaryOnPrior ==
  /\ eval_call.done
  /\ eval_call.h = "cs_source_term_dcsd_bary_by_analytic"
  /\ eval_call.prior = Garbage

\* term st_id applies to cell c: its mesh location is the whole mesh or lists c
Applies(st, c) ==
  LET elt_list == cs_mesh_location_get_elt_list(st.ml_id)
  IN  \/ elt_list = NoArray
      \/ \E i \in DOMAIN elt_list : elt_list[i] = c

\* sum over the terms st_id, st_id + 1, ... that apply to the cell of their own
\* contributions, added to acc
RECURSIVE SumOfContributions(_, _, _)
SumOfContributions(cm, st_id, acc) ==
  IF st_id >= eq_n_terms THEN acc
  ELSE SumOfContributions(cm, st_id + 1,
         IF Applies(eq_terms[st_id + 1], cm.c_id)
         THEN AddTo(acc, Contribution(eq_compute[st_id], eq_terms[st_id + 1], cm,
                                      eq_csys.n_dofs),
                    eq_csys.n_dofs)
         ELSE acc)

\* a cell has been assembled with the source terms active
Assembled ==
  /\ eq_status = "initialized"
  /\ eq_c_id >= 0
  /\ CS_FLAG_SYS_SOURCETERM \in eq_sys_flag

\* C2: after cs_source_term_compute_cellwise on a cell, the output buffer is the
\* sum over the terms that apply to the cell of each term's own contribution,
\* whatever the number, the evaluators and the order of the terms.
C2_BufferIsSumOfContributions ==
  Assembled =>
    LET sum == SumOfContributions(MeshCells[eq_c_id], 0, ZeroBuffer)
    IN  \A v \in 0..(eq_csys.n_dofs - 1) : eq_csys.source[v] = sum[v]

\* a cell has been assembled with two terms, the second one evaluated by the
\* barycentric evaluator
C2_BaryAfterAnotherTerm ==
  /\ Assembled
  /\ Len(eq_calls) = 2
  /\ eq_calls[2][2] = "cs_source_term_dcsd_bary_by_analytic"

\* C3: cs_source_term_compute_cellwise first resets the entries 0..n_dofs-1 of
\* the output buffer, whatever they held: the buffer after the call is the one
\* obtained from a zeroed buffer; and when the system flag does not mark the
\* source terms as active, the buffer is all zero and no evaluator is called.
C3_ResetThenInactiveReturnsZero ==
  (eq_status = "initialized" /\ eq_c_id >= 0) =>
    LET cm == MeshCells[eq_c_id]
        fresh == cs_source_term_compute_cellwise(
                   eq_n_terms, eq_terms, cm, eq_sys_flag, eq_mask, eq_compute,
                   CellBuilder(cm, eq_csys.n_dofs),
                   [n_dofs |-> eq_csys.n_dofs, source |-> ZeroBuffer])
    IN  /\ \A i \in 0..(eq_csys.n_dofs - 1) : eq_csys.source[i] = fresh.source[i]
        /\ CS_FLAG_SYS_SOURCETERM \notin eq_sys_flag =>
             /\ \A i \in 0..(eq_csys.n_dofs - 1) : eq_csys.source[i] = Zero
             /\ eq_calls = <<>>

\* a cell has been assembled for an equation that has terms but whose system
\* flag does not mark them as active
C3_InactiveAssembled ==
  /\ eq_status = "initialized"
  /\ eq_c_id >= 0
  /\ eq_n_terms > 0
  /\ CS_FLAG_SYS_SOURCETERM \notin eq_sys_flag
  /\ eq_csys.n_dofs > 0

\* bit st_id of the mask word of cell c
MaskBit(c, st_id) == (eq_mask[c] \div Pow2(st_id)) % 2

\* the terms st_id, st_id + 1, ... selected for the cell c, in ascending order,
\* each with its handle
RECURSIVE SelectedCalls(_, _)
SelectedCalls(c, st_id) ==
  IF st_id >= eq_n_terms THEN <<>>
  ELSE IF eq_mask = NoArray \/ MaskBit(c, st_id) = 1
  THEN <<<<st_id, eq_compute[st_id]>>>> \o SelectedCalls(c, st_id + 1)
  ELSE SelectedCalls(c, st_id + 1)

\* C4: when the source terms are active, cs_source_term_compute_cellwise calls
\* the handle of term t exactly once, in ascending order of t, for exactly the
\* t in 0..n_terms-1 for which the mask is NULL or bit t of the mask word of
\* the cell is set, and no other handle.
C4_CallsSelectedTermsInOrder ==
  Assembled => eq_calls = SelectedCalls(eq_c_id, 0)

\* a cell has been assembled under a mask that selects the second term and not
\* the first
C4_MaskSkipsFirstTerm ==
  /\ Assembled
  /\ eq_mask # NoArray
  /\ eq_n_terms = 2
  /\ MaskBit(eq_c_id, 0) = 0
  /\ MaskBit(eq_c_id, 1) = 1
  /\ Len(eq_calls) = 1

\* C5: in a mask built by cs_source_term_init, for every cell c and every term
\* i < n_source_terms, bit i of mask[c] is set iff term i applies to c (c is in
\* the list of its mesh location, or the term is full-domain); the bits of the
\* ids >= n_source_terms are zero.
C5_MaskBitIffTermApplies ==
  (eq_status = "initialized" /\ eq_mask # NoArray) =>
    \A c \in CellIds :
      /\ \A i \in 0..(eq_n_terms - 1) :
           (MaskBit(c, i) = 1) <=> Applies(eq_terms[i + 1], c)
      /\ eq_mask[c] < Pow2(eq_n_terms)

\* a mask has been built for a full-domain term and a term on a proper subset
C5_MaskOfMixedTerms ==
  /\ eq_status = "initialized"
  /\ eq_mask # NoArray
  /\ eq_n_terms = 2
  /\ cs_mesh_location_get_elt_list(eq_terms[1].ml_id) # NoArray
  /\ cs_mesh_location_get_elt_list(eq_terms[2].ml_id) = NoArray

\* every defined term is full-domain
AllFullDomain ==
  \A i \in 1..eq_n_terms : cs_mesh_location_get_elt_list(eq_terms[i].ml_id) = NoArray

\* C6: cs_source_term_init returns source_mask = NULL iff every defined term is
\* full-domain (also with no term at all); as soon as one term is defined on
\* a proper subset, a mask of n_cells words is returned.
C6_NoMaskIffAllFullDomain ==
  eq_status = "initialized" =>
    /\ (eq_mask = NoArray) <=> AllFullDomain
    /\ ~AllFullDomain => DOMAIN eq_mask = 0..(n_cells - 1)

\* cs_source_term_init has returned a mask for a registry whose last term only
\* is on a proper subset
C6_MaskForOneSubsetTerm ==
  /\ eq_status = "initialized"
  /\ eq_n_terms = 2
  /\ cs_mesh_location_get_elt_list(eq_terms[1].ml_id) = NoArray
  /\ cs_mesh_location_get_elt_list(eq_terms[2].ml_id) # NoArray
  /\ eq_mask # NoArray

\* two terms whose subsets are disjoint and together cover all the cells
DisjointCover ==
  /\ eq_n_terms = 2
  /\ \A c \in CellIds :
       Applies(eq_terms[1], c) <=> ~Applies(eq_terms[2], c)

\* C7: for two terms whose subsets are disjoint and cover all cells, the mask
\* built by cs_source_term_init has exactly one set bit in every cell, and the
\* buffer assembled for a cell is the result of evaluating only the term that
\* applies to that cell.
C7_DisjointCoverOneTermPerCell ==
  (eq_status = "initialized" /\ DisjointCover) =>
    /\ eq_mask # NoArray
    /\ \A c \in CellIds : eq_mask[c] \in {Pow2(0), Pow2(1)}
    /\ Assembled =>
         LET cm == MeshCells[eq_c_id]
             st_id == IF Applies(eq_terms[1], eq_c_id) THEN 0 ELSE 1
             only == Contribution(eq_compute[st_id], eq_terms[st_id + 1], cm,
                                  eq_csys.n_dofs)
         IN  \A v \in 0..(eq_csys.n_dofs - 1) : eq_csys.source[v] = only[v]

\* the last cell has been assembled for two terms with disjoint covering
\* subsets, the second term being the one of the first cell
C7_DisjointCoverAssembled ==
  /\ Assembled
  /\ DisjointCover
  /\ Applies(eq_terms[2], 0)
  /\ eq_c_id = n_cells - 1
  /\ Len(eq_calls) = 1

\* C8: for a configuration in which every term is full-domain, the assembly
\* with the NULL mask gives, for every cell, the same buffer and the same
\* sequence of calls as with a mask whose bits 0..n_terms-1 are set in every
\* cell.
C8_NoMaskSameAsAllOnesMask ==
  (Assembled /\ AllFullDomain /\ eq_mask = NoArray) =>
    LET cm == MeshCells[eq_c_id]
        ones == Stored([c \in CellIds |-> Pow2(eq_n_terms) - 1])
        masked == cs_source_term_compute_cellwise(
                    eq_n_terms, eq_terms, cm, eq_sys_flag, ones, eq_compute,
                    CellBuilder(cm, eq_csys.n_dofs),
                    [n_dofs |-> eq_csys.n_dofs, source |-> Garbage])
    IN  /\ masked.source = eq_csys.source
        /\ masked.calls = eq_calls

\* a cell has been assembled with the NULL mask for two full-domain terms
C8_TwoFullDomainTermsAssembled ==
  /\ Assembled
  /\ AllFullDomain
  /\ eq_mask = NoArray
  /\ eq_n_terms = 2
  /\ Len(eq_calls) = 2

\* a term for which no evaluator is implemented under the scheme
Unsupported(scheme, st) ==
  \/ scheme \notin {"CS_SPACE_SCHEME_CDOVB", "CS_SPACE_SCHEME_CDOVCB"}
  \/ st.def_type = "CS_PARAM_DEF_BY_ARRAY"
  \/ scheme = "CS_SPACE_SCHEME_CDOVCB" /\ CS_FLAG_DUAL \in st.flag
  \/ /\ scheme = "CS_SPACE_SCHEME_CDOVB"
     /\ CS_FLAG_DUAL \in st.flag
     /\ st.def_type = "CS_PARAM_DEF_BY_ANALYTIC_FUNCTION"
     /\ st.quad_type \notin {"CS_QUADRATURE_BARY", "CS_QUADRATURE_BARY_SUBDIV",
                             "CS_QUADRATURE_HIGHER", "CS_QUADRATURE_HIGHEST"}

\* C9: dispatch resolution never silently skips a term: when
\* cs_source_term_init returns, a handle is stored for every defined term, and
\* it does not return (it fails before any assembly) when a term is a density
\* under the hybrid scheme, is defined by array, is an analytic density with an
\* unknown quadrature, or when the scheme is neither vertex-based nor hybrid.
C9_HandleStoredOrInitFails ==
  /\ eq_status = "initialized" =>
       \A i \in 1..eq_n_terms :
         /\ eq_compute[i - 1] # NULL
         /\ ~Unsupported(eq_scheme, eq_terms[i])
  /\ eq_status \in {"bft_error", "assert"} => eq_c_id = -1

\* cs_source_term_init has failed on the second term after storing the handle
\* of the first
C9_InitFailedOnSecondTerm ==
  /\ eq_status = "bft_error"
  /\ eq_n_terms = 2
  /\ eq_compute[0] # NULL
  /\ eq_compute[1] = NULL
  /\ Unsupported(eq_scheme, eq_terms[2])

\* the decision table on (scheme, support, definition, quadrature); a term whose
\* support is neither a density nor a potential has no entry
DecisionTable(scheme, st) ==
  LET density == CS_FLAG_DUAL \in st.flag
      potential == ~density /\ CS_FLAG_PRIMAL \in st.flag
      by_value == st.def_type = "CS_PARAM_DEF_BY_VALUE"
      by_analytic == st.def_type = "CS_PARAM_DEF_BY_ANALYTIC_FUNCTION"
      vb == scheme = "CS_SPACE_SCHEME_CDOVB"
      vcb == scheme = "CS_SPACE_SCHEME_CDOVCB"
  IN  CASE vb /\ density /\ by_value -> "cs_source_term_dcsd_by_value"
        [] vb /\ density /\ by_analytic /\ st.quad_type = "CS_QUADRATURE_BARY" ->
             "cs_source_term_dcsd_bary_by_analytic"
        [] vb /\ density /\ by_analytic /\ st.quad_type = "CS_QUADRATURE_BARY_SUBDIV" ->
             "cs_source_term_dcsd_q1o1_by_analytic"
        [] vb /\ density /\ by_analytic /\ st.quad_type = "CS_QUADRATURE_HIGHER" ->
             "cs_source_term_dcsd_q10o2_by_analytic"
        [] vb /\ density /\ by_analytic /\ st.quad_type = "CS_QUADRATURE_HIGHEST" ->
             "cs_source_term_dcsd_q5o3_by_analytic"
        [] vb /\ potential /\ by_value -> "cs_source_term_pvsp_by_value"
        [] vb /\ potential /\ by_analytic -> "cs_source_term_pvsp_by_analytic"
        [] vcb /\ potential /\ by_value -> "cs_source_term_vcsp_by_value"
        [] vcb /\ potential /\ by_analytic -> "cs_source_term_vcsp_by_analytic"
        [] OTHER -> NULL

\* C10: the handle stored by cs_source_term_init for each defined term is the
\* one of the decision table; a term whose support is neither a density nor a
\* potential is not given a potential handle.
C10_HandleFollowsDecisionTable ==
  eq_status = "initialized" =>
    \A i \in 1..eq_n_terms : eq_compute[i - 1] = DecisionTable(eq_scheme, eq_terms[i])

\* cs_source_term_init has returned for a term that is neither a density nor a
\* potential
C10_TermWithoutSupportInitialized ==
  /\ eq_status = "initialized"
  /\ \E i \in 1..eq_n_terms : eq_terms[i].flag \cap {CS_FLAG_DUAL, CS_FLAG_PRIMAL} = {}

\* C11: a call of cs_source_term_def_by_value, cs_source_term_def_by_analytic or
\* cs_source_term_def_by_array whose mesh location is not a location of cells,
\* whose term id is beyond the maximum or whose value kind is not scalar,
\* vector or tensor fails: it never returns with the term defined.
C11_InvalidDefinitionFails ==
  (/\ def_call.fn # NULL
   /\ \/ cs_mesh_location_get_type(def_call.ml_id) # "CS_MESH_LOCATION_CELLS"
      \/ def_call.st_id >= CS_N_MAX_SOURCE_TERMS
      \/ def_call.var_type \notin {"CS_PARAM_VAR_SCAL", "CS_PARAM_VAR_VECT",
                                   "CS_PARAM_VAR_TENS"})
  => def_call.status # "ok"

\* a definition with a term id beyond the maximum has returned
C11_TermIdBeyondMaximumDefined ==
  /\ def_call.fn # NULL
  /\ def_call.st_id >= CS_N_MAX_SOURCE_TERMS
  /\ def_call.status = "ok"
  /\ eq_n_terms > 0


\* C12: building the cell mask fails when a cell index of the list of a term
\* is outside 0..n_cells-1, and no word is ever written outside the n_cells
\* words allocated for the mask: after cs_source_term_init has returned with a
\* mask, no term has such an index and nothing was written outside the mask.
C12_MaskIndexOutOfRangeFails ==
  /\ heap.oob = {}
  /\ (eq_status = "initialized" /\ eq_mask # NoArray)
     => \A i \in 1..eq_n_terms : OutsideWrites(eq_terms[i], eq_mask) = {}

\* cs_source_term_init has returned with a mask after writing at index n_cells
C12_WordWrittenPastTheMask ==
  /\ eq_status = "initialized"
  /\ eq_mask # NoArray
  /\ n_cells \in heap.oob
  /\ \E i \in 1..eq_n_terms : n_cells \in OutsideWrites(eq_terms[i], eq_mask)

\* C13: a null handle for a term that is active on the current cell is detected
\* by cs_source_term_compute_cellwise as a fatal error and is never called,
\* also when the number of terms is larger than the number of terms the
\* dispatch table was resolved for.
C13_NullHandleIsFatalNeverCalled ==
  /\ eq_status # "null_call"
  /\ (/\ eq_c_id >= 0
      /\ CS_FLAG_SYS_SOURCETERM \in eq_sys_flag
      /\ \E st_id \in 0..(eq_n_terms - 1) :
           /\ eq_compute[st_id] = NULL
           /\ eq_mask = NoArray \/ MaskBit(eq_c_id, st_id) = 1)
     => eq_status \in {"bft_error", "assert"}

\* the assembly of a cell has called through the null handle of a density
\* defined after cs_source_term_init, having called the handle of the term
\* defined before
C13_LateTermCalledThroughNull ==
  /\ eq_status = "null_call"
  /\ eq_n_terms = 2
  /\ eq_compute[0] # NULL
  /\ eq_compute[1] = NULL
  /\ {CS_FLAG_DUAL, CS_FLAG_CELL, CS_FLAG_FULL_LOC} \subseteq eq_terms[2].flag
  /\ Len(eq_calls) = 1

\* C14: for a density of constant value c, cs_source_term_dcsd_by_value adds to
\* each vertex v of the cell exactly c x wvc[v] x vol_c, whatever the volume of
\* the cell.
C14_DensityByValueScaledByVolume ==
  (eval_call.done /\ eval_call.h = "cs_source_term_dcsd_by_value") =>
    LET cm == GeomCells[eval_call.c]
    IN  \A v \in 0..(cm.n_vc - 1) :
          eval_call.values[v] =
            RAdd(eval_call.prior[v], RMul(RMul(eval_call.source.val, cm.wvc[v]), cm.vol_c))

\* cs_source_term_dcsd_by_value has added c x wvc[v], without the volume, on a
\* cell whose volume is neither 0 nor 1
C14_ByValueWithoutVolume ==
  /\ eval_call.done
  /\ eval_call.h = "cs_source_term_dcsd_by_value"
  /\ RPos(GeomCells[eval_call.c].vol_c)
  /\ GeomCells[eval_call.c].vol_c # R(1)
  /\ \A v \in 0..(GeomCells[eval_call.c].n_vc - 1) :
       eval_call.values[v] =
         RAdd(eval_call.prior[v],
              RMul(eval_call.source.val, GeomCells[eval_call.c].wvc[v]))

\* C15: for a density of constant value c on a cell whose vertex weights sum to
\* 1, each of the five density evaluators (by value, barycentric, subdivided
\* one point, order 2, order 3), run on a zeroed buffer, gives contributions
\* whose sum over the vertices of the cell is c x vol_c.
C15_ConstantFieldExact ==
  (/\ eval_call.done
   /\ eval_call.prior = ZeroBuffer
   /\ \/ eval_call.h = "cs_source_term_dcsd_by_value"
      \/ /\ eval_call.h \in {"cs_source_term_dcsd_bary_by_analytic",
                              "cs_source_term_dcsd_q1o1_by_analytic",
                              "cs_source_term_dcsd_q10o2_by_analytic",
                              "cs_source_term_dcsd_q5o3_by_analytic"}
         /\ eval_call.source.analytic = "f_const")
  => LET cm == GeomCells[eval_call.c]
         c == IF eval_call.h = "cs_source_term_dcsd_by_value"
              THEN eval_call.source.val
              ELSE AnaPoint("f_const", cs_time_step.t_cur, cm.xc)
     IN  RSum(eval_call.values, 0, cm.n_vc) = RMul(c, cm.vol_c)

\* the order 2 evaluator has run on a zeroed buffer for the constant 2 on the
\* first cell of the mesh, of volume 32/3, and the contributions sum to 362/15
C15_OrderTwoConstantTotal ==
  /\ eval_call.done
  /\ eval_call.prior = ZeroBuffer
  /\ eval_call.h = "cs_source_term_dcsd_q10o2_by_analytic"
  /\ eval_call.source.analytic = "f_const"
  /\ eval_call.c = 0
  /\ GeomCells[0].vol_c = Q(32, 3)
  /\ RSum(eval_call.values, 0, GeomCells[0].n_vc) = Q(362, 15)

\* C16: for an affine function f on a cell, the four analytic density
\* evaluators (barycentric, subdivided one point, order 2, order 3), run on a
\* zeroed buffer, give the same total over the vertices of the cell, equal to
\* the closed form vol_c x f(center of the cell).
C16_AffineFieldExact ==
  (/\ eval_call.done
   /\ eval_call.prior = ZeroBuffer
   /\ eval_call.h \in {"cs_source_term_dcsd_bary_by_analytic",
                        "cs_source_term_dcsd_q1o1_by_analytic",
                        "cs_source_term_dcsd_q10o2_by_analytic",
                        "cs_source_term_dcsd_q5o3_by_analytic"})
  => LET cm == GeomCells[eval_call.c]
     IN  RSum(eval_call.values, 0, cm.n_vc) =
           RMul(cm.vol_c, AnaPoint(eval_call.source.analytic, cs_time_step.t_cur, cm.xc))

\* the order 2 evaluator has run on a zeroed buffer for f(x, y, z) = x on the
\* first cell of the mesh, of volume 32/3 and center (1, 1, 1), and the
\* contributions sum to 407/36
C16_OrderTwoLinearTotal ==
  /\ eval_call.done
  /\ eval_call.prior = ZeroBuffer
  /\ eval_call.h = "cs_source_term_dcsd_q10o2_by_analytic"
  /\ eval_call.source.analytic = "f_x"
  /\ eval_call.c = 0
  /\ GeomCells[0].xc = P3(1, 1, 1)
  /\ RSum(eval_call.values, 0, GeomCells[0].n_vc) = Q(407, 36)

\* C17: no evaluator divides by a dual-cell volume vol_c x wvc[v] that is zero:
\* the evaluation fails or leaves a zero contribution, so that no entry of the
\* buffer is ever the result of a division by zero (inf or NaN), for any
\* geometry of the cell.
C17_NoDivisionByZeroDualVolume ==
  eval_call.done =>
    \A v \in 0..(GeomCells[eval_call.c].n_vc - 1) : eval_call.values[v] # NonFinite

\* the barycentric evaluator has run on the cell of volume 0 and has left in
\* the buffer the NaN obtained from 1/(vol_c x wvc[v])
C17_BaryOnFlatCellGivesNaN ==
  /\ eval_call.done
  /\ eval_call.h = "cs_source_term_dcsd_bary_by_analytic"
  /\ \A v \in 0..(GeomCells[eval_call.c].n_vc - 1) :
       /\ RMul(GeomCells[eval_call.c].vol_c, GeomCells[eval_call.c].wvc[v]) = Zero
       /\ eval_call.values[v] = NonFinite

C19_RegistryRoundTrip ==
  (def_call.fn # NULL /\ def_call.status = "ok") =>
    LET st == eq_terms[def_call.st + 1]
    IN  /\ cs_source_term_get_name(eq_terms, def_call.st) =
             (IF def_call.name # NULL THEN def_call.name
              ELSE "sourceterm_ " \o ToString(def_call.st_id))
        /\ cs_source_term_get_flag(eq_terms, def_call.st) =
             def_call.flag
             \cup (CASE def_call.var_type = "CS_PARAM_VAR_SCAL" -> {CS_FLAG_SCALAR}
                     [] def_call.var_type = "CS_PARAM_VAR_VECT" -> {CS_FLAG_VECTOR}
                     [] def_call.var_type = "CS_PARAM_VAR_TENS" -> {CS_FLAG_TENSOR})
             \cup (IF MeshLocations[def_call.ml_id].elt_list = NoArray
                   THEN {CS_FLAG_FULL_LOC}
                   ELSE {})
        /\ st.def_type =
             (CASE def_call.fn = "cs_source_term_def_by_value" -> "CS_PARAM_DEF_BY_VALUE"
                [] def_call.fn = "cs_source_term_def_by_analytic" ->
                     "CS_PARAM_DEF_BY_ANALYTIC_FUNCTION"
                [] def_call.fn = "cs_source_term_def_by_array" -> "CS_PARAM_DEF_BY_ARRAY")
        /\ st.array_desc = def_call.desc
        /\ st.array = def_call.array
        /\ st.ml_id = def_call.ml_id

\* after a call that has returned, cs_source_term_get_name returns the name
\* given and cs_source_term_get_flag returns exactly the flag given
C19_ReadBackExactlyWhatWasSet ==
  (def_call.fn # NULL /\ def_call.status = "ok") =>
    /\ def_call.name # NULL =>
         cs_source_term_get_name(eq_terms, def_call.st) = def_call.name
    /\ cs_source_term_get_flag(eq_terms, def_call.st) = def_call.flag
    /\ eq_terms[def_call.st + 1].array_desc.state = def_call.desc.state

\* a term named by the caller has been defined by an array that it owns on a
\* list of cells, and its flag read back has the bit of the scalars besides
\* the bits given
C19_NamedOwnedArrayReadBack ==
  /\ def_call.fn = "cs_source_term_def_by_array"
  /\ def_call.status = "ok"
  /\ def_call.name = "momentum_st"
  /\ cs_source_term_get_name(eq_terms, def_call.st) = "momentum_st"
  /\ def_call.flag = {CS_FLAG_DUAL, CS_FLAG_CELL}
  /\ cs_source_term_get_flag(eq_terms, def_call.st) =
       {CS_FLAG_DUAL, CS_FLAG_CELL, CS_FLAG_SCALAR}
  /\ CS_FLAG_STATE_OWNER \in eq_terms[def_call.st + 1].array_desc.state
  /\ eq_terms[def_call.st + 1].array # NULL

\* C20: cs_source_term_destroy releases exactly once the name of every term
\* and the array of every term whose descriptor has CS_FLAG_STATE_OWNER, never
\* an array that the caller keeps nor anything for a term without array, and
\* returns NULL; called on NULL it releases nothing, so that after a second
\* call in a row every block is still released once.
C20_DestroyReleasesOwnedBlocksOnce ==
  heap.destroyed > 0 =>
    LET Released(block) == Cardinality({k \in 1..Len(heap.freed) : heap.freed[k] = block})
        owners == {i \in 1..eq_n_terms :
                     /\ CS_FLAG_STATE_OWNER \in eq_terms[i].array_desc.state
                     /\ eq_terms[i].array # NULL}
    IN  /\ heap.source_terms = NULL
        /\ Released("source_terms") = 1
        /\ \A i \in 1..eq_n_terms :
             /\ Released("name_" \o ToString(i - 1)) = 1
             /\ eq_terms[i].array # NULL =>
                  Released(eq_terms[i].array) = (IF i \in owners THEN 1 ELSE 0)
        /\ Len(heap.freed) = eq_n_terms + Cardinality(owners) + 1

\* cs_source_term_destroy has been called twice in a row on two terms defined
\* by array, the first with an array that the caller keeps and the second
\* with an array that it owns
C20_DestroyedTwiceOwnedAndBorrowed ==
  /\ heap.destroyed = 2
  /\ heap.source_terms = NULL
  /\ eq_n_terms = 2
  /\ eq_terms[1].array # NULL
  /\ CS_FLAG_STATE_OWNER \notin eq_terms[1].array_desc.state
  /\ eq_terms[2].array # NULL
  /\ CS_FLAG_STATE_OWNER \in eq_terms[2].array_desc.state
  /\ Len(heap.freed) = 4

\* C21: every cs_source_term_def_by_* call leaves the term with the quadrature
\* CS_QUADRATURE_BARY, and cs_source_term_set_quadrature changes the
\* quadrature of the term and no other field: after any sequence of calls,
\* the quadrature of each term is the one given by the last
\* cs_source_term_set_quadrature since its last definition, or
\* CS_QUADRATURE_BARY when there is none.
C21_QuadratureIsLastSetSinceDefinition ==
  def_call.fn # NULL =>
    /\ \A i \in 1..eq_n_terms :
         eq_terms[i].quad_type =
           (IF def_call.quad[i] = NULL THEN "CS_QUADRATURE_BARY" ELSE def_call.quad[i])
    /\ (def_call.fn = "cs_source_term_set_quadrature" /\ def_call.status = "ok") =>
         \A field \in DOMAIN def_call.before \ {"quad_type"} :
           eq_terms[def_call.st + 1][field] = def_call.before[field]

\* the quadrature of the second term, defined by an analytic function, has
\* been set from the default to the highest, while the first term has had no
\* quadrature set since its last definition
C21_QuadratureSetAfterRedefinition ==
  /\ def_call.fn = "cs_source_term_set_quadrature"
  /\ def_call.status = "ok"
  /\ def_call.st = 1
  /\ def_call.before.quad_type = "CS_QUADRATURE_BARY"
  /\ eq_terms[2].quad_type = "CS_QUADRATURE_HIGHEST"
  /\ eq_terms[2].def_type = "CS_PARAM_DEF_BY_ANALYTIC_FUNCTION"
  /\ def_call.quad[1] = NULL
  /\ eq_terms[1].quad_type = "CS_QUADRATURE_BARY"

C23_NoPotentialEvaluationWithoutHodge ==
  eval_call.done /\ ~eval_call.hdg => eval_call.status # "ok"

\* an evaluator of a potential has returned from a call with a cell builder
\* that holds no Hodge operator
C23_PotentialEvaluatorReturnedWithoutHodge ==
  /\ eval_call.done
  /\ eval_call.h \in {"cs_source_term_pvsp_by_value", "cs_source_term_vcsp_by_analytic"}
  /\ ~eval_call.hdg
  /\ eval_call.status = "ok"

\* C23, the system flag: after cs_source_term_init has returned, *sys_flag is
\* the flag given with, if and only if one of the n_source_terms terms has
\* the flag CS_FLAG_PRIMAL, the bits CS_FLAG_SYS_HLOC_CONF and
\* CS_FLAG_SYS_SOURCES_HLOC added
C23_HodgeFlagsIffPrimalTerm ==
  def_call.fn = "cs_source_term_init" /\ def_call.status = "ok" =>
    eq_sys_flag =
      def_call.sys_flag
      \cup (IF \E i \in 1..def_call.n_source_terms :
                 CS_FLAG_PRIMAL \in def_call.source_terms[i].flag
            THEN {CS_FLAG_SYS_HLOC_CONF, CS_FLAG_SYS_SOURCES_HLOC}
            ELSE {})

\* C24: in the ten-point evaluator every value read from the results of the
\* two batched evaluations on the edges is the value of the field at the
\* point of the same edge: val_ev[2e] and val_ev[2e+1] at the mid-points
\* between the centre of edge e and its two vertices, val_ec[2e] (weight
\* -1/20) at the centre of edge e and val_ec[2e+1] (weight 1/5) at the
\* mid-point between the centre of edge e and the cell centre
C24_EdgeValuesReadForSameEdge ==
  eval_call.done /\ eval_call.h = "cs_source_term_dcsd_q10o2_by_analytic" =>
    LET cm == GeomCells[eval_call.c]
        ana == eval_call.source.analytic
        tcur == cs_time_step.t_cur
        zero == Stored([k \in 0..(ScratchSize(cm) - 1) |-> Zero])
        val_ev == q10o2_val_ev(ana, cm, zero)
        val_ec == q10o2_val_ec(ana, cm, zero)
    IN  \A e \in 0..(cm.n_ec - 1) :
          LET xe == cm.edge[e].center
          IN  /\ val_ev[2 * cm.n_vc + 2 * e] =
                   AnaPoint(ana, tcur, VScale(Q(1, 2), VAdd(cm.xv[cm.e2v_ids[2 * e]], xe)))
              /\ val_ev[2 * cm.n_vc + 2 * e + 1] =
                   AnaPoint(ana, tcur,
                            VScale(Q(1, 2), VAdd(cm.xv[cm.e2v_ids[2 * e + 1]], xe)))
              /\ val_ec[2 * cm.n_vc + 2 * e] = AnaPoint(ana, tcur, xe)
              /\ val_ec[2 * cm.n_vc + 2 * e + 1] =
                   AnaPoint(ana, tcur, VScale(Q(1, 2), VAdd(cm.xc, xe)))

\* the ten-point evaluator has run for the field f(x, y, z) = x on cell 0,
\* where val_ec[1], read with the weight 1/5 for edge 0, holds the value at
\* the centre of edge 1 and not the value at the mid-point between the centre
\* of edge 0 and the cell centre
C24_CentreOfNextEdgeReadAsMidpoint ==
  /\ eval_call.done
  /\ eval_call.h = "cs_source_term_dcsd_q10o2_by_analytic"
  /\ eval_call.c = 0
  /\ eval_call.source.analytic = "f_x"
  /\ LET cm == GeomCells[0]
         val_ec == q10o2_val_ec("f_x", cm,
                                Stored([k \in 0..(ScratchSize(cm) - 1) |-> Zero]))
     IN  /\ val_ec[2 * cm.n_vc + 1] = AnaPoint("f_x", cs_time_step.t_cur, cm.edge[1].center)
         /\ val_ec[2 * cm.n_vc + 1] #
              AnaPoint("f_x", cs_time_step.t_cur,
                       VScale(Q(1, 2), VAdd(cm.xc, cm.edge[0].center)))

\* C25: in the ten-point evaluator pec_vol[e] holds at its last read, for
\* every edge e of the cell, the sum of the volumes pef_vol added to it in the
\* loop on the faces: neither the reset and the updates of pfv_vol nor the
\* results val_ev and val_ec have changed it
C25_EdgeVolumesKeptUntilLastRead ==
  eval_call.done /\ eval_call.h = "cs_source_term_dcsd_q10o2_by_analytic" =>
    LET cm == GeomCells[eval_call.c]
        vals == Q10o2Scratch[eval_call.source.analytic][eval_call.c]
        tets == SubTets(cm)
    IN  \A e \in 0..(cm.n_ec - 1) :
          vals[cm.n_vc + e] =
            RSum([i \in DOMAIN tets |->
                    IF tets[i].e = e
                    THEN cs_math_voltet(cm.xv[tets[i].v1], cm.xv[tets[i].v2],
                                        cm.face[tets[i].f].center, cm.xc)
                    ELSE Zero],
                 0, cm.f2e_idx[cm.n_fc])

\* the ten-point evaluator has run on cell 0, a tetrahedron (4 vertices, 6
\* edges): pec_vol[4] is the same entry of cb->values as pfv_vol[0], val_ev[0]
\* and val_ec[0] and holds at the end the value of the field at the centre of
\* edge 0, while pec_vol[0] holds the volume of the two sub-tetrahedra of
\* edge 0
C25_EdgeVolumeOverwrittenOnTetrahedron ==
  /\ eval_call.done
  /\ eval_call.h = "cs_source_term_dcsd_q10o2_by_analytic"
  /\ eval_call.c = 0
  /\ eval_call.source.analytic = "f_affine"
  /\ LET cm == GeomCells[0]
         vals == Q10o2Scratch["f_affine"][0]
     IN  /\ cm.n_ec > cm.n_vc
         /\ vals[cm.n_vc + 4] = AnaPoint("f_affine", cs_time_step.t_cur, cm.edge[0].center)
         /\ vals[cm.n_vc + 0] =
              RMul(R(2), cs_math_voltet(cm.xv[0], cm.xv[1], cm.face[0].center, cm.xc))

\* C26: an evaluator changes only the entries of the caller's buffer that
\* belong to the degrees of freedom of the cell: the entries 0..n_vc-1 for the
\* pvsp_* and dcsd_* evaluators, the entries 0..n_vc for the vcsp_*
\* evaluators; every other entry holds after the call what it held before
C26_EvaluatorsWriteOnlyCellDofs ==
  eval_call.done =>
    LET cm == GeomCells[eval_call.c]
        n == IF eval_call.h \in {"cs_source_term_vcsp_by_value",
                                 "cs_source_term_vcsp_by_analytic"}
             THEN cm.n_vc + 1
             ELSE cm.n_vc
    IN  /\ DOMAIN eval_call.values = DOMAIN eval_call.prior
        /\ \A i \in DOMAIN eval_call.prior :
             i >= n => eval_call.values[i] = eval_call.prior[i]

\* a vcsp evaluator has changed the entry of the cell, entry n_vc of a buffer
\* that held numbers, and the entry after it is as before
C26_CellEntryWrittenNextEntryKept ==
  /\ eval_call.done
  /\ eval_call.h = "cs_source_term_vcsp_by_value"
  /\ eval_call.prior = Garbage
  /\ LET n_vc == GeomCells[eval_call.c].n_vc
     IN  /\ eval_call.values[n_vc] # eval_call.prior[n_vc]
         /\ eval_call.values[n_vc + 1] = eval_call.prior[n_vc + 1]
         /\ eval_call.values[n_vc + 1] # Zero

\* C27: after cs_source_term_init has returned, compute_source[i] is not
\* NULL if and only if i < n_source_terms, for every i below
\* CS_N_MAX_SOURCE_TERMS; with n_source_terms = 0 every entry is NULL,
\* *source_mask is NULL and *sys_flag is as the caller gave it
C27_HandleSetIffTermBuilt ==
  def_call.fn = "cs_source_term_init" /\ def_call.status = "ok" =>
    /\ \A i \in 0..(CS_N_MAX_SOURCE_TERMS - 1) :
         eq_compute[i] # NULL <=> i < def_call.n_source_terms
    /\ def_call.n_source_terms = 0 =>
         /\ \A i \in 0..(CS_N_MAX_SOURCE_TERMS - 1) : eq_compute[i] = NULL
         /\ eq_mask = NoArray
         /\ eq_sys_flag = def_call.sys_flag

\* cs_source_term_init has returned from a call with n_source_terms = 0 on a
\* table with a function for term 0, on a mask and on a system flag with the
\* bits of the Hodge operator, all left by a build before
C27_BuiltWithNoTermAfterABuild ==
  /\ def_call.fn = "cs_source_term_init"
  /\ def_call.status = "ok"
  /\ def_call.n_source_terms = 0
  /\ def_call.compute_source[0] # NULL
  /\ def_call.source_mask # NoArray
  /\ CS_FLAG_SYS_HLOC_CONF \in def_call.sys_flag
  /\ eq_compute[0] = NULL

\* C28: after any sequence of cs_source_term_init calls, the table and the mask
\* left by the last call that returned are those of that call's scheme and
\* terms alone: entry i of the table is the function that the scheme gives for
\* term i, or NULL for i >= n_source_terms; the mask is NULL when every term
\* is on the whole mesh, and otherwise the word of each cell has bit i if and
\* only if i < n_source_terms and term i applies to the cell; they are equal to
\* what the same call gives on an empty table and no mask
C28_BuildDependsOnLastCallOnly ==
  def_call.fn = "cs_source_term_init" /\ def_call.status = "ok" =>
    LET n == def_call.n_source_terms
        terms == def_call.source_terms
        fresh == cs_source_term_init(def_call.space_scheme, n, terms, NoHandles,
                                     def_call.sys_flag, NoArray, NDEBUG)
    IN  /\ eq_compute = fresh.compute_source
        /\ eq_mask = fresh.source_mask
        /\ \A i \in 0..(CS_N_MAX_SOURCE_TERMS - 1) :
             eq_compute[i] = IF i < n THEN Dispatch(def_call.space_scheme, terms[i + 1], NDEBUG)
                             ELSE NULL
        /\ eq_mask = NoArray <=> \A i \in 1..n : CS_FLAG_FULL_LOC \in terms[i].flag
        /\ eq_mask # NoArray =>
             \A c \in DOMAIN eq_mask, i \in 0..(CS_MASK_BITS - 1) :
               BitAnd(eq_mask[c], Pow2(i)) # 0 <=> i < n /\ Applies(terms[i + 1], c)

\* a build has returned on a table and a mask left by a build of other
\* terms: term 0, that was on the whole mesh, is now on a list of cells
\* without cell 1, where the mask before had its bit, and the table before had
\* a function for a term that the new build does not have
C28_RebuiltAfterNarrowingAndRemoval ==
  /\ def_call.fn = "cs_source_term_init"
  /\ def_call.status = "ok"
  /\ def_call.n_source_terms = 1
  /\ def_call.compute_source[1] # NULL
  /\ def_call.source_mask # NoArray
  /\ BitAnd(def_call.source_mask[1], 1) # 0
  /\ eq_mask # NoArray
  /\ BitAnd(eq_mask[1], 1) = 0
  /\ eq_compute[1] = NULL
  /\ eq_compute[0] # def_call.compute_source[0]

\* C29: a cs_source_term_set_reduction call that returns changes nothing but
\* the flag of the term and keeps in it the bits of the kind of value, of the
\* border, by-cell and whole-mesh; it changes nothing when the term has a bit
\* of the flag requested; asked for DUAL on a PRIMAL|VERTEX term it replaces
\* the support by DUAL|CELL, asked for PRIMAL on a DUAL|CELL term by
\* PRIMAL|VERTEX; and DUAL then PRIMAL on a PRIMAL|VERTEX term, or PRIMAL then
\* DUAL on a DUAL|CELL term, gives back the flag the term had
C29_ReductionConvertsSupportAndKeepsTheRest ==
  /\ def_call.fn = "cs_source_term_set_reduction"
  /\ def_call.status = "ok"
  =>
    LET before == def_call.before
        after == eq_terms[def_call.st + 1]
        Kept == {CS_FLAG_SCALAR, CS_FLAG_VECTOR, CS_FLAG_TENSOR, "CS_FLAG_BORDER",
                 "CS_FLAG_BY_CELL", CS_FLAG_FULL_LOC}
    IN  /\ [after EXCEPT !.flag = before.flag] = before
        /\ after.flag \cap Kept = before.flag \cap Kept
        /\ before.flag \cap def_call.arg # {} => after.flag = before.flag
        /\ def_call.arg = {CS_FLAG_DUAL} /\ CS_FLAG_DUAL \notin before.flag =>
             /\ {CS_FLAG_PRIMAL, CS_FLAG_VERTEX} \subseteq before.flag
             /\ after.flag = (before.flag \cap Kept) \cup {CS_FLAG_DUAL, CS_FLAG_CELL}
        /\ def_call.arg = {CS_FLAG_PRIMAL} /\ CS_FLAG_PRIMAL \notin before.flag =>
             /\ {CS_FLAG_DUAL, CS_FLAG_CELL} \subseteq before.flag
             /\ after.flag = (before.flag \cap Kept) \cup {CS_FLAG_PRIMAL, CS_FLAG_VERTEX}
        /\ \/ /\ def_call.prev.arg = {CS_FLAG_DUAL}
              /\ def_call.arg = {CS_FLAG_PRIMAL}
              /\ {CS_FLAG_PRIMAL, CS_FLAG_VERTEX} \subseteq def_call.prev.flag
           \/ /\ def_call.prev.arg = {CS_FLAG_PRIMAL}
              /\ def_call.arg = {CS_FLAG_DUAL}
              /\ {CS_FLAG_DUAL, CS_FLAG_CELL} \subseteq def_call.prev.flag
           => after.flag = def_call.prev.flag

\* a potential at the vertices of the border, defined by value on the whole
\* mesh, has been reduced to a density on dual cells and then back
C29_ReducedToDualAndBack ==
  /\ def_call.fn = "cs_source_term_set_reduction"
  /\ def_call.status = "ok"
  /\ def_call.arg = {CS_FLAG_PRIMAL}
  /\ def_call.prev.arg = {CS_FLAG_DUAL}
  /\ def_call.prev.flag = {CS_FLAG_PRIMAL, CS_FLAG_VERTEX, "CS_FLAG_BORDER", CS_FLAG_SCALAR,
                           CS_FLAG_FULL_LOC}
  /\ def_call.before.flag = {CS_FLAG_DUAL, CS_FLAG_CELL, "CS_FLAG_BORDER", CS_FLAG_SCALAR,
                             CS_FLAG_FULL_LOC}
  /\ eq_terms[def_call.st + 1].flag = def_call.prev.flag


\* C30: after cs_rad_transfer_wall_flux with tmin <= tmax, the wall
\* temperature tparop of every boundary face of type ipgrno, iprefl, ifgrno
\* or ifrefl is a number of [tmin, tmax], that of a face of type itpimp is
\* its interior temperature tintp, and that of a face of any other type is
\* what it was before the call
C30_WallTemperatureClippedOrImposedOrKept ==
  (eval_call.h = "cs_rad_transfer_wall_flux" /\ eval_call.done
     /\ ~RLess(eval_call.tmax, eval_call.tmin)) =>
    \A ifac \in DOMAIN eval_call.b_faces :
      LET f == eval_call.b_faces[ifac]
          t == eval_call.tparop[ifac]
      IN  /\ f.isothp \in {"ipgrno", "iprefl", "ifgrno", "ifrefl"} =>
               (t # NonFinite /\ ~RLess(t, eval_call.tmin) /\ ~RLess(eval_call.tmax, t))
          /\ f.isothp = "itpimp" => t = f.tintp
          /\ f.isothp = "none" => t = f.tparop

\* a reflecting face whose wall temperature was 0 and is not a number after
\* the call, the other face having been clipped to tmin
C30_WallTemperatureNotANumberAfterClipping ==
  /\ eval_call.h = "cs_rad_transfer_wall_flux"
  /\ eval_call.done
  /\ ~RLess(eval_call.tmax, eval_call.tmin)
  /\ eval_call.b_faces[0].isothp = "iprefl"
  /\ eval_call.b_faces[0].tparop = Zero
  /\ eval_call.tparop[0] = NonFinite
  /\ eval_call.b_faces[1].isothp = "ifrefl"
  /\ eval_call.tparop[1] = eval_call.tmin

==============================================================================
